---- MODULE Spec2Model ----
(***************************************************************************)
(* Model of the todo-system scanner and directory walker (src/src/scan.rs), *)
(* its entry model (src/src/entries.rs) and its report renderer            *)
(* (src/src/render.rs).                                                    *)
(*                                                                         *)
(* A Rust &str is modelled as a sequence of one-character strings, so that *)
(* every string operation of the source (split_whitespace, split_once,     *)
(* trim_end_matches, to_lowercase, ...) is computed the way the standard   *)
(* library computes it.                                                    *)
(***************************************************************************)
EXTENDS Integers, Sequences, FiniteSets, TLC

VARIABLES
    line_num,   \* scan_string: number of lines consumed so far (enumerate() index)
    line,       \* scan_string: the line consumed last
    entries,    \* the shared Vec<Entry> the scanners push to
    panicked,   \* TRUE once an unwrap() has failed: the process has aborted
    pp_word,    \* parse_priority: the argument of the call
    pp_result,  \* parse_priority: what the call returned
    report,     \* render_entries: what has been written to stdout, by section
    fs,         \* scan_dir: the directory tree on disk (fixed during a walk)
    excludes,   \* scan_dir: the Vec<PathBuf> of excluded canonical paths
    stack,      \* scan_dir: the active calls, innermost last, each with the
                \*           children its read_dir iterator has yet to yield
    visited_folders,  \* Stats.visited_folders (verbosity >= 2)
    visited_files,    \* Stats.visited_files (verbosity >= 2)
    walk,       \* scan_dir: "idle", "running", or how the outermost call ended
    current_category,  \* scan_todo_file: the Option<&str> set by the last heading
    in_todo_section,   \* scan_readme_file: whether the last heading opened the TODO section
    consumed,          \* scan_todo_file, scan_readme_file: the lines consumed so far
    runs        \* main: which of two runs of the program over the same input
                \*       this is, the input, and what the first run returned

walk_vars == <<fs, excludes, stack, visited_folders, visited_files, walk, runs>>

list_vars == <<current_category, in_todo_section, consumed>>

vars == <<line_num, line, entries, panicked, pp_word, pp_result, report,
          fs, excludes, stack, visited_folders, visited_files, walk,
          current_category, in_todo_section, consumed, runs>>

(***************************************************************************)
(* std::str operations                                                     *)
(***************************************************************************)

\* char::to_lowercase on the letters the inputs use
Lower(c) ==
    CASE c = "T" -> "t"
      [] c = "O" -> "o"
      [] c = "D" -> "d"
      [] c = "X" -> "x"
      [] c = "B" -> "b"
      [] OTHER -> c

to_lowercase(s) == [i \in 1..Len(s) |-> Lower(s[i])]

\* char::is_whitespace on the characters the inputs use
is_whitespace(c) == c = " "

starts_with(s, p) == Len(s) >= Len(p) /\ SubSeq(s, 1, Len(p)) = p

ends_with(s, p) == Len(s) >= Len(p) /\ SubSeq(s, Len(s) - Len(p) + 1, Len(s)) = p

\* str::find: index of the first occurrence of p in s, 0 when there is none
RECURSIVE find_from(_, _, _)
find_from(s, p, i) ==
    IF i + Len(p) - 1 > Len(s) THEN 0
    ELSE IF SubSeq(s, i, i + Len(p) - 1) = p THEN i
    ELSE find_from(s, p, i + 1)

find(s, p) == find_from(s, p, 1)

contains(s, p) == find(s, p) # 0

RECURSIVE trim_start(_)
trim_start(s) ==
    IF s # <<>> /\ is_whitespace(Head(s)) THEN trim_start(Tail(s)) ELSE s

RECURSIVE trim_end(_)
trim_end(s) ==
    IF s # <<>> /\ is_whitespace(s[Len(s)])
    THEN trim_end(SubSeq(s, 1, Len(s) - 1))
    ELSE s

trim(s) == trim_end(trim_start(s))

\* str::trim_end_matches: the suffix p is removed as often as it occurs
RECURSIVE trim_end_matches(_, _)
trim_end_matches(s, p) ==
    IF p # <<>> /\ ends_with(s, p)
    THEN trim_end_matches(SubSeq(s, 1, Len(s) - Len(p)), p)
    ELSE s

\* str::trim_start_matches: the prefix p is removed as often as it occurs
RECURSIVE trim_start_matches(_, _)
trim_start_matches(s, p) ==
    IF p # <<>> /\ starts_with(s, p)
    THEN trim_start_matches(SubSeq(s, Len(p) + 1, Len(s)), p)
    ELSE s

\* str::split_once: None, or the parts before and after the first occurrence
split_once(s, p) ==
    LET i == find(s, p) IN
    IF i = 0 THEN [some |-> FALSE, before |-> <<>>, after |-> <<>>]
    ELSE [some   |-> TRUE,
          before |-> SubSeq(s, 1, i - 1),
          after  |-> SubSeq(s, i + Len(p), Len(s))]

\* s.split(p).nth(1): None when p does not occur in s, otherwise the piece
\* between the first occurrence of p and the next one (or the end of s)
split_nth1(s, p) ==
    LET first == split_once(s, p) IN
    IF ~first.some THEN [some |-> FALSE, val |-> <<>>]
    ELSE LET second == split_once(first.after, p) IN
         [some |-> TRUE,
          val  |-> IF second.some THEN second.before ELSE first.after]

\* str::split_whitespace: the maximal runs of non-whitespace characters
RECURSIVE split_whitespace_from(_, _, _)
split_whitespace_from(s, i, cur) ==
    IF i > Len(s) THEN (IF cur = <<>> THEN <<>> ELSE <<cur>>)
    ELSE IF is_whitespace(s[i])
         THEN (IF cur = <<>> THEN <<>> ELSE <<cur>>)
              \o split_whitespace_from(s, i + 1, <<>>)
         ELSE split_whitespace_from(s, i + 1, Append(cur, s[i]))

split_whitespace(s) == split_whitespace_from(s, 1, <<>>)

(***************************************************************************)
(* Entry model (entries.rs)                                                *)
(***************************************************************************)

Generic == [kind |-> "Generic", category |-> <<>>, priority |-> 0]

Category(name) == [kind |-> "Category", category |-> name, priority |-> 0]

Priority(n) == [kind |-> "Priority", category |-> <<>>, priority |-> n]

Location(file, ln) == [file |-> file, line |-> ln]

Entry(text, location, data) == [text |-> text, location |-> location, data |-> data]

(***************************************************************************)
(* Marker parser (scan.rs)                                                 *)
(***************************************************************************)

PRIORITY_CHARS == {"0", "1", "2", "3", "4", "5", "6", "7", "8", "9"}

todo == <<"t", "o", "d", "o">>

DigitValue(c) ==
    CASE c = "0" -> 0 [] c = "1" -> 1 [] c = "2" -> 2 [] c = "3" -> 3
      [] c = "4" -> 4 [] c = "5" -> 5 [] c = "6" -> 6 [] c = "7" -> 7
      [] c = "8" -> 8 [] c = "9" -> 9

\* str::parse::<isize> on a string of one character: only a digit parses
parse_isize_1(s) ==
    IF s[1] \in PRIORITY_CHARS
    THEN [ok |-> TRUE, val |-> DigitValue(s[1])]
    ELSE [ok |-> FALSE, val |-> 0]

any_priority_char(word) == \E i \in 1..Len(word) : word[i] \in PRIORITY_CHARS

\* parse_priority: Some(n), None, or a failed unwrap (Panic)
parse_priority(word) ==
    LET lowercase_word == to_lowercase(word)
        nth1 == split_nth1(lowercase_word, todo)
        priority_substr == nth1.val
    IN
    IF ~nth1.some THEN [kind |-> "Panic", val |-> 0]
    ELSE IF Len(priority_substr) = 1
    THEN (IF parse_isize_1(priority_substr).ok
          THEN [kind |-> "Some", val |-> parse_isize_1(priority_substr).val]
          ELSE [kind |-> "Panic", val |-> 0])
    ELSE IF \A i \in 1..Len(priority_substr) : priority_substr[i] = "0"
    THEN [kind |-> "Some", val |-> 1 - Len(priority_substr)]
    ELSE [kind |-> "None", val |-> 0]

\* clean_line without the second trim()
clean_line_no_retrim(ln, delimiter_word) ==
    LET parts == split_once(ln, delimiter_word) IN
    IF ~parts.some THEN [some |-> FALSE, val |-> <<>>]
    ELSE [some |-> TRUE,
          val  |-> trim_end_matches(
                     trim_end_matches(
                       trim_end_matches(
                         trim_end_matches(trim(parts.after), <<"*", "/">>),
                         <<"-", "-", ">">>),
                       <<"-", "-", "}", "}">>),
                     <<"/", ">">>)]

\* clean_line: the text after the first occurrence of delimiter_word, trimmed,
\* the closing tags removed in the order of the source; None models the
\* failed unwrap of split_once
clean_line(ln, delimiter_word) ==
    LET parts == split_once(ln, delimiter_word) IN
    IF ~parts.some THEN [some |-> FALSE, val |-> <<>>]
    ELSE [some |-> TRUE,
          val  |-> trim(
                     trim_end_matches(
                       trim_end_matches(
                         trim_end_matches(
                           trim_end_matches(trim(parts.after), <<"*", "/">>),
                           <<"-", "-", ">">>),
                         <<"-", "-", "}", "}">>),
                       <<"/", ">">>))]

\* What one pass of the loop body leaves: the entries pushed, whether an
\* unwrap failed, and whether the loop over the words was left with `break`
Step(out, panic, brk) == [out |-> out, panic |-> panic, brk |-> brk]

\* macro_form with the line left untrimmed
macro_form_untrimmed(ln, loc) == Step(<<Entry(ln, loc, Generic)>>, FALSE, TRUE)

\* scan.rs 158-169: the macro call todo!( gives the whole trimmed line
macro_form(ln, loc) == Step(<<Entry(trim(ln), loc, Generic)>>, FALSE, TRUE)

\* scan.rs 175: is the word, its trailing colons removed, a bare marker
is_bare(word) ==
    trim_end_matches(trim_end_matches(to_lowercase(word), <<"\"">>), <<"'">>) = todo

\* scan.rs 176-185
generic_form(text, loc) == Step(<<Entry(text, loc, Generic)>>, FALSE, TRUE)

\* scan.rs 188-201
category_form(text, loc, word) ==
    LET category == split_nth1(word, <<"@">>) IN
    IF ~category.some THEN Step(<<>>, TRUE, FALSE)
    ELSE Step(<<Entry(text, loc, Category(category.val))>>, FALSE, TRUE)

\* priority_form that goes on with the next word when the priority is malformed
priority_form_continue(text, loc, word) ==
    LET priority == parse_priority(word) IN
    IF priority.kind = "Panic" THEN Step(<<>>, TRUE, FALSE)
    ELSE IF priority.kind = "Some"
    THEN Step(<<Entry(text, loc, Priority(priority.val))>>, FALSE, TRUE)
    ELSE Step(<<>>, FALSE, FALSE)

\* priority_form that goes on with the next word after a Priority entry
priority_form_no_break(text, loc, word) ==
    LET priority == parse_priority(word) IN
    IF priority.kind = "Panic" THEN Step(<<>>, TRUE, FALSE)
    ELSE IF priority.kind = "Some"
    THEN Step(<<Entry(text, loc, Priority(priority.val))>>, FALSE, FALSE)
    ELSE Step(<<>>, FALSE, TRUE)

\* scan.rs 203-216: the loop is left whether or not the priority parses
priority_form(text, loc, word) ==
    LET priority == parse_priority(word) IN
    IF priority.kind = "Panic" THEN Step(<<>>, TRUE, FALSE)
    ELSE IF priority.kind = "Some"
    THEN Step(<<Entry(text, loc, Priority(priority.val))>>, FALSE, TRUE)
    ELSE Step(<<>>, FALSE, TRUE)

\* One pass of the body of `for mut word in line.split_whitespace()`
scan_word(ln, word0, num, file) ==
    IF ~starts_with(to_lowercase(word0), todo) THEN Step(<<>>, FALSE, FALSE)
    ELSE
    LET text == clean_line(ln, word0)
        word == trim_end_matches(word0, <<":">>)
        loc  == Location(file, num + 1)
    IN
    IF ~text.some THEN Step(<<>>, TRUE, FALSE)
    ELSE IF starts_with(word0, <<"t", "o", "d", "o", "!", "(">>) THEN macro_form(ln, loc)
    ELSE IF is_bare(word) THEN generic_form(text.val, loc)
    ELSE IF contains(word, <<"@">>) THEN category_form(text.val, loc, word)
    ELSE IF any_priority_char(word) THEN priority_form(text.val, loc, word)
    ELSE Step(<<>>, FALSE, FALSE)

\* The loop over the words of a line, from the word of index i on
RECURSIVE scan_words(_, _, _, _, _)
scan_words(ln, words, i, num, file) ==
    IF i > Len(words) THEN [out |-> <<>>, panic |-> FALSE]
    ELSE LET r == scan_word(ln, words[i], num, file) IN
         IF r.panic THEN [out |-> r.out, panic |-> TRUE]
         ELSE IF r.brk THEN [out |-> r.out, panic |-> FALSE]
         ELSE LET rest == scan_words(ln, words, i + 1, num, file) IN
              [out |-> r.out \o rest.out, panic |-> rest.panic]

\* One pass of the body of `for (line_num, line) in str.lines().enumerate()`
scan_line(ln, num, file) ==
    IF ~contains(to_lowercase(ln), todo)
    THEN [out |-> <<>>, panic |-> FALSE]
    ELSE scan_words(ln, split_whitespace(ln), 1, num, file)

(***************************************************************************)
(* Input lines of scan_string: an optional comment opener, one or two      *)
(* words, an optional comment closer.                                      *)
(***************************************************************************)

MaxLines == 1

FirstWords ==
    { <<"t", "o", "d", "o">>,
      <<"T", "O", "D", "O", ":">>,
      <<"t", "o", "d", "o", "\"">>,
      <<"t", "o", "d", "o", "@", "x">>,
      <<"T", "O", "D", "O", "@", "a", "@", "B">>,
      <<"t", "o", "d", "o", "@">>,
      <<"t", "o", "d", "o", "1">>,
      <<"T", "o", "d", "o", "2", ":">>,
      <<"T", "O", "D", "O", "0", "0">>,
      <<"t", "o", "d", "o", "1", "1">>,
      <<"t", "o", "d", "o", "t", "o", "d", "o", "1">>,
      <<"t", "o", "d", "o", "-", "t", "o", "d", "o", "1">>,
      <<"t", "o", "d", "o", "!", "(", "@", "0", ")">>,
      <<"T", "O", "D", "O", "!", "(", ")">>,
      <<"t", "o", "d", "o", "s">>,
      <<"x", "t", "o", "d", "o">>,
      <<"b">> }

SecondWords ==
    { <<>>,
      <<"b">>,
      <<"t", "o", "d", "o">>,
      <<"T", "O", "D", "O", ":">>,
      <<"t", "o", "d", "o", "@", "x">>,
      <<"t", "o", "d", "o", "2">> }

\* The words of the lines that exercise the cleanup of the text
CleanedWords ==
    { <<"t", "o", "d", "o">>,
      <<"T", "O", "D", "O", ":">>,
      <<"t", "o", "d", "o", "@", "x">>,
      <<"t", "o", "d", "o", "1">>,
      <<"t", "o", "d", "o", "!", "(", "@", "0", ")">>,
      <<"b">> }

Openers == { <<>>, <<" ", "/", "/", " ">> }

Closers ==
    { <<>>,
      <<" ", "*", "/">>,
      <<" ", "/", ">", " ", "*", "/">>,
      <<" ", "-", "-", ">", " ">>,
      <<" ", "-", "-", "}", "}">> }

Compose(o, w1, w2, c) == o \o w1 \o (IF w2 = <<>> THEN <<>> ELSE <<" ">> \o w2) \o c

\* Every pair of words, bare or closed by */, and every opener and closer
\* around the words whose text is cleaned
Lines ==
    { Compose(<<>>, w1, w2, c) :
        w1 \in FirstWords, w2 \in SecondWords, c \in {<<>>, <<" ", "*", "/">>} }
    \cup
    { Compose(o, w1, w2, c) :
        o \in Openers, w1 \in CleanedWords, w2 \in {<<>>, <<"b">>}, c \in Closers }

\* The file name the tests of scan_string pass
filename == "foo.txt"

(***************************************************************************)
(* scan_string as a state machine: one step per line of the input          *)
(***************************************************************************)

Pending == [kind |-> "Pending", val |-> 0]

\* The variables of parse_priority called on its own, at rest
PriorityIdle == pp_word = <<>> /\ pp_result = Pending

\* The variables of scan_string, at rest
ScanIdle == line_num = 0 /\ line = <<>>

\* The variables of scan_todo_file and scan_readme_file, at rest
ListIdle ==
    /\ current_category = [some |-> FALSE, val |-> <<>>]
    /\ in_todo_section = FALSE
    /\ consumed = <<>>

\* No result of an earlier run
NoRun == [walk |-> "idle", entries |-> <<>>, visited_folders |-> <<>>, visited_files |-> <<>>]

\* A program that is run once, with whatever order read_dir yields
RunsIdle == runs = [run |-> 0, order |-> <<>>, excludes |-> <<>>, first |-> NoRun]

\* The variables of scan_dir, at rest
WalkIdle ==
    /\ RunsIdle
    /\ fs = <<>>
    /\ excludes = <<>>
    /\ stack = <<>>
    /\ visited_folders = <<>>
    /\ visited_files = <<>>
    /\ walk = "idle"

Init ==
    /\ line_num = 0
    /\ line = <<>>
    /\ entries = <<>>
    /\ panicked = FALSE
    /\ PriorityIdle
    /\ report = <<>>
    /\ WalkIdle
    /\ ListIdle

\* scan_string consumes the next line of its input
ScanLine(ln) ==
    /\ ~panicked
    /\ line_num < MaxLines
    /\ LET r == scan_line(ln, line_num, filename) IN
       /\ entries' = entries \o r.out
       /\ panicked' = r.panic
    /\ line' = ln
    /\ line_num' = line_num + 1
    /\ UNCHANGED <<pp_word, pp_result, report>>
    /\ UNCHANGED walk_vars
    /\ UNCHANGED list_vars

Next == \E ln \in Lines : ScanLine(ln)

Spec == Init /\ [][Next]_vars

(***************************************************************************)
(* Vocabulary of the properties.  These definitions describe the input     *)
(* line by positions, not by the scanner's own loop.                       *)
(***************************************************************************)

\* The entries pushed for the line consumed last
LastOut == SelectSeq(entries, LAMBDA e : e.location.line = line_num)

LastLoc == Location(filename, line_num)

\* The whitespace-delimited words of l, as <<first, last>> positions
WordSpans(l) ==
    { sp \in (1..Len(l)) \X (1..Len(l)) :
        /\ sp[1] <= sp[2]
        /\ \A k \in sp[1]..sp[2] : l[k] # " "
        /\ (sp[1] = 1 \/ l[sp[1] - 1] = " ")
        /\ (sp[2] = Len(l) \/ l[sp[2] + 1] = " ") }

WordAt(l, sp) == SubSeq(l, sp[1], sp[2])

RestAfter(l, sp) == SubSeq(l, sp[2] + 1, Len(l))

TodoPrefixed(w) == Len(w) >= 4 /\ to_lowercase(SubSeq(w, 1, 4)) = todo

\* `todo`, `todo:` in any case
IsBareMarker(w) == to_lowercase(w) \in {todo, todo \o <<":">>}

IsMacroCall(w) == Len(w) >= 6 /\ SubSeq(w, 1, 6) = todo \o <<"!", "(">>

HasChar(w, cs) == \E i \in 1..Len(w) : w[i] \in cs

\* The characters that follow the marker, the trailing colons dropped
Suffix(w) == LET t == trim_end_matches(w, <<":">>) IN SubSeq(t, 5, Len(t))

AllZero(x) == \A i \in 1..Len(x) : x[i] = "0"

AllDigits(x) == \A i \in 1..Len(x) : x[i] \in PRIORITY_CHARS

\* todoN with one digit, or todo0..0
IsPriorityMarker(w) ==
    /\ TodoPrefixed(w)
    /\ Len(Suffix(w)) >= 1
    /\ AllDigits(Suffix(w))
    /\ (Len(Suffix(w)) = 1 \/ AllZero(Suffix(w)))

PriorityValue(w) ==
    IF Len(Suffix(w)) = 1 THEN DigitValue(Suffix(w)[1]) ELSE 1 - Len(Suffix(w))

\* two or more digits that are not all `0`, such as todo11
IsMalformedPriority(w) ==
    /\ TodoPrefixed(w)
    /\ Len(Suffix(w)) >= 2
    /\ AllDigits(Suffix(w))
    /\ ~AllZero(Suffix(w))

\* A word at which the scan of the line ends: a macro call, a bare marker
\* (quoted or not), a category marker or a marker with a digit
IsMarkerForm(w) ==
    /\ TodoPrefixed(w)
    /\ \/ IsMacroCall(w)
       \/ to_lowercase(Suffix(w)) \in {<<>>, <<"\"">>, <<"'">>, <<"\"", "'">>}
       \/ HasChar(w, {"@"})
       \/ HasChar(w, PRIORITY_CHARS)

\* sp is the first word of l that satisfies P
IsFirst(l, sp, P(_)) ==
    /\ sp \in WordSpans(l)
    /\ P(WordAt(l, sp))
    /\ \A sq \in WordSpans(l) : sq[1] < sp[1] => ~P(WordAt(l, sq))

OccursAt(l, w, i) == i + Len(w) - 1 <= Len(l) /\ SubSeq(l, i, i + Len(w) - 1) = w

\* What follows the first occurrence of the text w in l
AfterFirstOccurrence(l, w) ==
    LET i == CHOOSE i \in 1..Len(l) :
                 OccursAt(l, w, i) /\ \A j \in 1..(i - 1) : ~OccursAt(l, w, j)
    IN SubSeq(l, i + Len(w), Len(l))

Trimmed(x) ==
    LET ink == { i \in 1..Len(x) : x[i] # " " } IN
    IF ink = {} THEN <<>>
    ELSE SubSeq(x, CHOOSE i \in ink : \A j \in ink : i <= j,
                   CHOOSE i \in ink : \A j \in ink : i >= j)

\* x without every copy of the closing tag c at its end
WithoutClosing(x, c) ==
    LET n  == Len(c)
        ks == { k \in 0..Len(x) :
                  /\ k * n <= Len(x)
                  /\ \A j \in 1..k :
                        SubSeq(x, Len(x) - j * n + 1, Len(x) - (j - 1) * n) = c }
        k  == CHOOSE k \in ks : \A m \in ks : m <= k
    IN SubSeq(x, 1, Len(x) - k * n)

ClosingTags == { <<"*", "/">>, <<"-", "-", ">">>, <<"-", "-", "}", "}">>, <<"/", ">">> }

\* Trimmed, the closing tags removed in the order */ --> --}} />, trimmed again
Cleaned(x) ==
    Trimmed(
      WithoutClosing(
        WithoutClosing(
          WithoutClosing(
            WithoutClosing(Trimmed(x), <<"*", "/">>),
            <<"-", "-", ">">>),
          <<"-", "-", "}", "}">>),
        <<"/", ">">>))

EndsWithClosing(x) == \E c \in ClosingTags : ends_with(x, c)

(***************************************************************************)
(* Properties of scan_string                                               *)
(***************************************************************************)

\* C1 (as stated): every line with a bare marker word `todo` / `todo:` yields
\* exactly one entry, a Generic one, whose text is the cleaned remainder of
\* the line after that word, whatever todo-prefixed words precede it.
C1_BareMarkerAnywhere ==
    line_num > 0 =>
        \A sp \in WordSpans(line) :
            IsFirst(line, sp, IsBareMarker) =>
                LastOut = <<Entry(Cleaned(RestAfter(line, sp)), LastLoc, Generic)>>

\* C1 (amended): a line whose first marker-form word is a bare marker `todo` /
\* `todo:` yields exactly one entry, a Generic one, whose text is what follows
\* the first occurrence of that word's text in the line, trimmed, the closing
\* tags removed in the order */ --> --}} />, and trimmed again.
C1_BareMarkerFirstMatch ==
    line_num > 0 =>
        \A sp \in WordSpans(line) :
            (IsFirst(line, sp, IsMarkerForm) /\ IsBareMarker(WordAt(line, sp))) =>
                LastOut = <<Entry(Cleaned(AfterFirstOccurrence(line, WordAt(line, sp))),
                                  LastLoc, Generic)>>

\* C1 witness: a bare marker after a todo-prefixed word that is no marker,
\* with text and a closing tag behind it, has been scanned
C1_Witness ==
    /\ line_num > 0
    /\ \E sp \in WordSpans(line) :
          /\ IsFirst(line, sp, IsMarkerForm)
          /\ IsBareMarker(WordAt(line, sp))
          /\ sp[1] > 1
          /\ \E sq \in WordSpans(line) : sq[1] < sp[1] /\ TodoPrefixed(WordAt(line, sq))
    /\ EndsWithClosing(line)
    /\ Len(LastOut) = 1
    /\ LastOut[1].text # <<>>

\* C2 (as stated): a line whose first marker-form word is todo@X yields exactly
\* one entry, Category(X), X being everything after the first `@` in its
\* original case, and X is not empty.
C2_CategoryAfterFirstAt ==
    (line_num > 0 /\ ~panicked) =>
        \A sp \in WordSpans(line) :
            (/\ IsFirst(line, sp, IsMarkerForm)
             /\ starts_with(to_lowercase(WordAt(line, sp)), todo \o <<"@">>)) =>
                /\ Len(LastOut) = 1
                /\ LastOut[1].data.kind = "Category"
                /\ LastOut[1].data.category = SubSeq(WordAt(line, sp), 6, sp[2] - sp[1] + 1)
                /\ LastOut[1].data.category # <<>>

\* C4 (as stated): after a first marker-form word that is a malformed priority
\* (todo11) the scan of the line goes on, so a later bare marker on the same
\* line yields its entry.
C4_ScanContinuesAfterMalformed ==
    line_num > 0 =>
        \A sp \in WordSpans(line) :
            (/\ IsFirst(line, sp, IsMarkerForm)
             /\ IsMalformedPriority(WordAt(line, sp))
             /\ \E sq \in WordSpans(line) : sq[1] > sp[1] /\ IsBareMarker(WordAt(line, sq))) =>
                Len(LastOut) >= 1

\* C4 (amended): a first marker-form word that is a malformed priority (todo11)
\* yields no entry and ends the scan of its line: the line yields no entry at
\* all, whatever markers follow on it.
C4_MalformedEndsLine ==
    line_num > 0 =>
        \A sp \in WordSpans(line) :
            (IsFirst(line, sp, IsMarkerForm) /\ IsMalformedPriority(WordAt(line, sp))) =>
                (LastOut = <<>> /\ ~panicked)

\* C4 witness: `todo11` followed by a bare marker has been scanned
C4_Witness ==
    /\ line_num > 0
    /\ \E sp \in WordSpans(line) :
          /\ IsFirst(line, sp, IsMarkerForm)
          /\ IsMalformedPriority(WordAt(line, sp))
          /\ \E sq \in WordSpans(line) : sq[1] > sp[1] /\ IsBareMarker(WordAt(line, sq))
    /\ LastOut = <<>>

\* C5 (as stated): the scan does not stop after a priority marker that parses,
\* so a line with two priority markers yields two Priority entries.
C5_OnePriorityPerMarker ==
    line_num > 0 =>
        \A sp \in WordSpans(line) :
            (/\ IsFirst(line, sp, IsMarkerForm)
             /\ IsPriorityMarker(WordAt(line, sp))
             /\ \E sq \in WordSpans(line) : sq[1] > sp[1] /\ IsPriorityMarker(WordAt(line, sq))) =>
                Len(LastOut) = Cardinality({ sq \in WordSpans(line) : IsPriorityMarker(WordAt(line, sq)) })

\* C5 (amended): the scan of a line stops after the first Generic, Category,
\* macro-call or Priority match alike: no line yields more than one entry, and
\* a line whose first marker-form word is a priority marker todoN yields
\* exactly the Priority entry of that word.
C5_FirstMatchEndsLine ==
    line_num > 0 =>
        /\ Len(LastOut) <= 1
        /\ \A sp \in WordSpans(line) :
              (IsFirst(line, sp, IsMarkerForm) /\ IsPriorityMarker(WordAt(line, sp))) =>
                  LastOut = <<Entry(Cleaned(AfterFirstOccurrence(line, WordAt(line, sp))),
                                    LastLoc, Priority(PriorityValue(WordAt(line, sp))))>>

\* C5 witness: a line with two priority markers has yielded one Priority entry
C5_Witness ==
    /\ line_num > 0
    /\ \E sp \in WordSpans(line) :
          /\ IsFirst(line, sp, IsMarkerForm)
          /\ IsPriorityMarker(WordAt(line, sp))
          /\ \E sq \in WordSpans(line) : sq[1] > sp[1] /\ IsPriorityMarker(WordAt(line, sq))
    /\ Len(LastOut) = 1
    /\ LastOut[1].data.kind = "Priority"

\* C6: a line whose first todo-prefixed word begins with `todo!(` yields
\* exactly one entry, a Generic one whose text is the whole trimmed line, even
\* with `@` or digits in the macro argument.
C6_MacroCallWholeLine ==
    line_num > 0 =>
        \A sp \in WordSpans(line) :
            (IsFirst(line, sp, TodoPrefixed) /\ IsMacroCall(WordAt(line, sp))) =>
                LastOut = <<Entry(Trimmed(line), LastLoc, Generic)>>

\* C6 witness: a macro call with `@` and a digit in its argument, inside an
\* indented line, has been scanned
C6_Witness ==
    /\ line_num > 0
    /\ \E sp \in WordSpans(line) :
          /\ IsFirst(line, sp, TodoPrefixed)
          /\ IsMacroCall(WordAt(line, sp))
          /\ HasChar(WordAt(line, sp), {"@"})
          /\ HasChar(WordAt(line, sp), PRIORITY_CHARS)
    /\ line[1] = " "
    /\ Len(LastOut) = 1
    /\ LastOut[1].data = Generic

\* C7 (as stated, for the entries whose text is cut out of the line behind a
\* marker): the text of an entry has no leading or trailing whitespace and
\* does not end with any of the closing tags */ --> --}} />.
C7_TextIsClean ==
    \A i \in 1..Len(entries) :
        (\A sp \in WordSpans(entries[i].text) : ~IsMacroCall(WordAt(entries[i].text, sp))) =>
            /\ entries[i].text = Trimmed(entries[i].text)
            /\ ~EndsWithClosing(entries[i].text)

(***************************************************************************)
(* parse_priority called on its own.  Its callers pass a word that starts  *)
(* with `todo` in any case and holds a digit.                              *)
(***************************************************************************)

MaxSuffixAtoms == 3

SuffixAtoms == { <<"0">>, <<"1">>, <<"9">>, <<"-">>, <<"x">>, todo }

RECURSIVE Flatten(_)
Flatten(ss) == IF ss = <<>> THEN <<>> ELSE Head(ss) \o Flatten(Tail(ss))

Suffixes ==
    UNION { { Flatten(f) : f \in [1..n -> SuffixAtoms] } : n \in 1..MaxSuffixAtoms }

PriorityWords ==
    { w \in { m \o x : m \in {todo, <<"T", "O", "D", "O">>}, x \in Suffixes } :
        any_priority_char(w) }

InitPriority ==
    /\ pp_word \in PriorityWords
    /\ pp_result = Pending
    /\ ScanIdle
    /\ entries = <<>>
    /\ panicked = FALSE
    /\ report = <<>>
    /\ WalkIdle
    /\ ListIdle

CallParsePriority ==
    /\ pp_result = Pending
    /\ pp_result' = parse_priority(pp_word)
    /\ UNCHANGED <<pp_word, line_num, line, entries, panicked, report>>
    /\ UNCHANGED walk_vars
    /\ UNCHANGED list_vars

NextPriority == CallParsePriority

SpecPriority == InitPriority /\ [][NextPriority]_vars

\* C3 (as stated): the characters after `todo` decide the result: one digit d
\* gives d; k >= 1 characters that are all `0` give 1 - k; every other suffix
\* gives no priority.
C3_SuffixDecides ==
    pp_result # Pending =>
        LET suffix == SubSeq(pp_word, 5, Len(pp_word)) IN
        IF Len(suffix) = 1
        THEN pp_result = [kind |-> "Some", val |-> DigitValue(suffix[1])]
        ELSE IF Len(suffix) >= 1 /\ AllZero(suffix)
        THEN pp_result = [kind |-> "Some", val |-> 1 - Len(suffix)]
        ELSE pp_result = [kind |-> "None", val |-> 0]

(***************************************************************************)
(* Report renderer (render.rs)                                             *)
(***************************************************************************)

\* The byte values that String::partial_cmp compares
Byte(c) ==
    CASE c = " " -> 32 [] c = "0" -> 48 [] c = "1" -> 49 [] c = "9" -> 57
      [] c = "A" -> 65 [] c = "B" -> 66 [] c = "a" -> 97 [] c = "b" -> 98
      [] c = "x" -> 120

\* a.partial_cmp(b) is Less or Equal for two strings: byte by byte, a proper
\* prefix first
RECURSIVE str_le(_, _)
str_le(a, b) ==
    IF a = <<>> THEN TRUE
    ELSE IF b = <<>> THEN FALSE
    ELSE IF Byte(Head(a)) # Byte(Head(b)) THEN Byte(Head(a)) < Byte(Head(b))
    ELSE str_le(Tail(a), Tail(b))

\* keys().collect() followed by sort_by: the keys of a HashMap come in any
\* order and are distinct, so the sorted Vec is the keys from least to greatest
RECURSIVE sort_priority_keys(_)
sort_priority_keys(keys) ==
    IF keys = {} THEN <<>>
    ELSE LET least == CHOOSE k \in keys : \A other \in keys : k <= other IN
         <<least>> \o sort_priority_keys(keys \ {least})

RECURSIVE sort_category_keys(_)
sort_category_keys(keys) ==
    IF keys = {} THEN <<>>
    ELSE LET least == CHOOSE k \in keys : \A other \in keys : str_le(k, other) IN
         <<least>> \o sort_category_keys(keys \ {least})

\* Vec::sort_by on the generic entries: a stable sort by text
RECURSIVE insert_by_text(_, _)
insert_by_text(sorted, e) ==
    IF sorted = <<>> THEN <<e>>
    ELSE IF str_le(sorted[Len(sorted)].text, e.text) THEN Append(sorted, e)
    ELSE Append(insert_by_text(SubSeq(sorted, 1, Len(sorted) - 1), e), sorted[Len(sorted)])

RECURSIVE sort_by_text(_)
sort_by_text(es) ==
    IF es = <<>> THEN <<>>
    ELSE insert_by_text(sort_by_text(SubSeq(es, 1, Len(es) - 1)), es[Len(es)])

\* render.rs 46-68: the entries go to their bucket in the order of discovery
EmptyMap == [k \in {} |-> <<>>]

\* push_to with the entry put in front of its bucket
push_to_front(map, key, e) ==
    IF key \in DOMAIN map
    THEN [map EXCEPT ![key] = <<e>> \o @]
    ELSE map @@ (key :> <<e>>)

push_to(map, key, e) ==
    IF key \in DOMAIN map
    THEN [map EXCEPT ![key] = Append(@, e)]
    ELSE map @@ (key :> <<e>>)

RECURSIVE partition(_, _, _)
partition(es, i, acc) ==
    IF i > Len(es) THEN acc
    ELSE LET e == es[i] IN
         partition(es, i + 1,
            CASE e.data.kind = "Priority" ->
                    [acc EXCEPT !.priority_entries = push_to(@, e.data.priority, e)]
              [] e.data.kind = "Category" ->
                    [acc EXCEPT !.category_entries = push_to(@, e.data.category, e)]
              [] e.data.kind = "Generic" ->
                    [acc EXCEPT !.generic_entries = Append(@, e)])

\* format!("{}", n) for n > 0
RECURSIVE decimal(_)
decimal(n) ==
    LET digit == CHOOSE c \in PRIORITY_CHARS : DigitValue(c) = n % 10 IN
    IF n < 10 THEN <<digit>> ELSE Append(decimal(n \div 10), digit)

zeros(n) == [i \in 1..n |-> "0"]

abs(n) == IF n < 0 THEN -n ELSE n

\* priority_notation with one `0` too few for the negative priorities
priority_notation_short(priority) ==
    IF priority < 0 THEN todo \o zeros(abs(priority))
    ELSE IF priority = 0 THEN todo \o <<"0">>
    ELSE todo \o decimal(priority)

\* render.rs 77-90
priority_notation(priority) ==
    IF priority < 0 THEN (todo \o <<"0">>) \o zeros(abs(priority))
    ELSE IF priority = 0 THEN todo \o <<"0">>
    ELSE todo \o decimal(priority)

Section(kind, header, items) == [kind |-> kind, header |-> header, items |-> items]

section_mark == <<"#", "#", " ">>

RECURSIVE priority_sections(_, _)
priority_sections(keys, map) ==
    IF keys = <<>> THEN <<>>
    ELSE <<Section("Priority", section_mark \o priority_notation(Head(keys)), map[Head(keys)])>>
         \o priority_sections(Tail(keys), map)

RECURSIVE category_sections(_, _)
category_sections(keys, map) ==
    IF keys = <<>> THEN <<>>
    ELSE <<Section("Category", section_mark \o Head(keys), map[Head(keys)])>>
         \o category_sections(Tail(keys), map)

\* render_entries with the priority keys left in the order of discovery
RECURSIVE first_seen(_, _)
first_seen(es, seen) ==
    IF es = <<>> THEN <<>>
    ELSE IF Head(es).data.kind = "Priority" /\ Head(es).data.priority \notin seen
         THEN <<Head(es).data.priority>>
              \o first_seen(Tail(es), seen \cup {Head(es).data.priority})
         ELSE first_seen(Tail(es), seen)

render_entries_unsorted(es) ==
    LET buckets == partition(es, 1, [priority_entries |-> EmptyMap,
                                     category_entries |-> EmptyMap,
                                     generic_entries  |-> <<>>])
    IN  <<Section("Heading", <<"#", " ", "T", "O", "D", "O", "s">>, <<>>)>>
        \o priority_sections(first_seen(es, {}), buckets.priority_entries)
        \o category_sections(sort_category_keys(DOMAIN buckets.category_entries),
                             buckets.category_entries)
        \o <<Section("Other", section_mark \o <<"O", "t", "h", "e", "r">>,
                     sort_by_text(buckets.generic_entries))>>

\* render_entries: the heading, the priority sections, the category sections,
\* the section of the generic entries
render_entries(es) ==
    LET buckets == partition(es, 1, [priority_entries |-> EmptyMap,
                                     category_entries |-> EmptyMap,
                                     generic_entries  |-> <<>>])
    IN  <<Section("Heading", <<"#", " ", "T", "O", "D", "O", "s">>, <<>>)>>
        \o priority_sections(sort_priority_keys(DOMAIN buckets.priority_entries),
                             buckets.priority_entries)
        \o category_sections(sort_category_keys(DOMAIN buckets.category_entries),
                             buckets.category_entries)
        \o <<Section("Other", section_mark \o <<"O", "t", "h", "e", "r">>,
                     sort_by_text(buckets.generic_entries))>>

(***************************************************************************)
(* The scanners fill the collection, render_entries consumes it once.      *)
(***************************************************************************)

MaxEntries == 4

\* The priorities parse_priority returns for the words above
ScannedPriorities ==
    { parse_priority(w).val : w \in { v \in PriorityWords : parse_priority(v).kind = "Some" } }

CategoryNames == { <<"a">>, <<"B">> }

GenericTexts == { <<>>, <<"a">>, <<"a", "b">>, <<"B">> }

\* What a scanner may have pushed as the entry found in place n
Found(n) ==
    { Entry(<<"x">>, Location(filename, n), Priority(p)) : p \in ScannedPriorities }
    \cup { Entry(<<"x">>, Location(filename, n), Category(c)) : c \in CategoryNames }
    \cup { Entry(t, Location(filename, n), Generic) : t \in GenericTexts }

InitRender ==
    /\ entries = <<>>
    /\ report = <<>>
    /\ ScanIdle
    /\ PriorityIdle
    /\ panicked = FALSE
    /\ WalkIdle
    /\ ListIdle

Discover(e) ==
    /\ report = <<>>
    /\ Len(entries) < MaxEntries
    /\ entries' = Append(entries, e)
    /\ UNCHANGED <<report, line_num, line, panicked, pp_word, pp_result>>
    /\ UNCHANGED walk_vars
    /\ UNCHANGED list_vars

Render ==
    /\ report = <<>>
    /\ report' = render_entries(entries)
    /\ UNCHANGED <<entries, line_num, line, panicked, pp_word, pp_result>>
    /\ UNCHANGED walk_vars
    /\ UNCHANGED list_vars

NextRender ==
    \/ \E e \in Found(Len(entries) + 1) : Discover(e)
    \/ Render

SpecRender == InitRender /\ [][NextRender]_vars

(***************************************************************************)
(* Properties of render_entries                                            *)
(***************************************************************************)

SectionsOf(kind) == { i \in 1..Len(report) : report[i].kind = kind }

\* The key of a priority or category section: that of the entries under it
SectionPriority(i) == report[i].items[1].data.priority

SectionCategory(i) == report[i].items[1].data.category

\* a comes before b in the byte-wise lexicographic order
LexLess(a, b) ==
    \E k \in 0..Len(a) :
        /\ k <= Len(b)
        /\ SubSeq(a, 1, k) = SubSeq(b, 1, k)
        /\ \/ (k = Len(a) /\ k < Len(b))
           \/ (k < Len(a) /\ k < Len(b) /\ Byte(a[k + 1]) < Byte(b[k + 1]))

\* C8: whatever the order of discovery, the priority sections come first, in
\* strictly ascending numeric order of the priority, then the category
\* sections in strictly ascending lexicographic order of the name, then one
\* last section Other whose entries are in ascending order of their text, the
\* empty text first.
C8_SectionOrder ==
    report # <<>> =>
        /\ report[1].kind = "Heading"
        /\ SectionsOf("Other") = {Len(report)}
        /\ \A i \in SectionsOf("Priority"), j \in SectionsOf("Category") : i < j
        /\ \A i \in SectionsOf("Priority") : report[i].items # <<>>
        /\ \A i \in SectionsOf("Category") : report[i].items # <<>>
        /\ \A i, j \in SectionsOf("Priority") :
              i < j => SectionPriority(i) < SectionPriority(j)
        /\ { SectionPriority(i) : i \in SectionsOf("Priority") }
              = { entries[k].data.priority :
                    k \in { n \in 1..Len(entries) : entries[n].data.kind = "Priority" } }
        /\ \A i, j \in SectionsOf("Category") :
              i < j => LexLess(SectionCategory(i), SectionCategory(j))
        /\ { SectionCategory(i) : i \in SectionsOf("Category") }
              = { entries[k].data.category :
                    k \in { n \in 1..Len(entries) : entries[n].data.kind = "Category" } }
        /\ LET other == report[Len(report)].items IN
           /\ \A i, j \in 1..Len(other) :
                 i < j => (other[i].text = other[j].text \/ LexLess(other[i].text, other[j].text))
           /\ \A i \in 1..Len(other) : other[i].data = Generic
           /\ Len(other) = Cardinality({ n \in 1..Len(entries) : entries[n].data = Generic })
           /\ (\E i \in 1..Len(other) : other[i].text = <<>>) => other[1].text = <<>>

\* C8 witness: a report has been rendered from entries found with a positive
\* priority before a negative one and a text before the empty text
C8_Witness ==
    /\ report # <<>>
    /\ \E i, j \in 1..Len(entries) :
          /\ i < j
          /\ entries[i].data.kind = "Priority" /\ entries[j].data.kind = "Priority"
          /\ entries[i].data.priority > 0 /\ entries[j].data.priority < 0
    /\ \E i, j \in 1..Len(entries) :
          /\ i < j
          /\ entries[i].data = Generic /\ entries[j].data = Generic
          /\ entries[i].text # <<>> /\ entries[j].text = <<>>

\* C9: the header of the section of priority N is `todoN` for N >= 0 and
\* `todo0` followed by |N| more `0` for N < 0, and parse_priority maps that
\* header back to N, for every priority the scanner produces.
C9_HeaderParsesBack ==
    \A i \in SectionsOf("Priority") :
        LET n      == SectionPriority(i)
            marker == SubSeq(report[i].header, 4, Len(report[i].header))
        IN
        /\ SubSeq(report[i].header, 1, 3) = <<"#", "#", " ">>
        /\ n <= 9
        /\ n >= 0 => marker = todo \o <<CHOOSE c \in PRIORITY_CHARS : DigitValue(c) = n>>
        /\ n < 0 => marker = todo \o <<"0">> \o [k \in 1..(0 - n) |-> "0"]
        /\ parse_priority(marker) = [kind |-> "Some", val |-> n]

\* C9 witness: a report with a section of a negative priority and a section
\* of a positive priority has been rendered
C9_Witness ==
    /\ \E i \in SectionsOf("Priority") : SectionPriority(i) < -1
    /\ \E i \in SectionsOf("Priority") : SectionPriority(i) > 0

\* The places of the report: section i, item j
Places == { <<i, j>> : i \in 1..Len(report), j \in 1..MaxEntries }

Rendered == { pl \in Places : pl[2] <= Len(report[pl[1]].items) }

\* The section i is the one the entry e belongs to
SectionOf(e, i) ==
    CASE e.data.kind = "Priority" ->
            /\ report[i].kind = "Priority"
            /\ report[i].header = section_mark \o priority_notation(e.data.priority)
      [] e.data.kind = "Category" ->
            /\ report[i].kind = "Category"
            /\ report[i].header = section_mark \o e.data.category
      [] e.data.kind = "Generic" -> report[i].kind = "Other"

\* C23: every entry is rendered exactly once and in the section it belongs
\* to, nothing else is rendered, and within a priority section and within a
\* category section the entries come in their order of discovery.
C23_EveryEntryRenderedOnce ==
    report # <<>> =>
        /\ \A k \in 1..Len(entries) :
              /\ Cardinality({ pl \in Rendered : report[pl[1]].items[pl[2]] = entries[k] }) = 1
              /\ \A pl \in Rendered :
                    report[pl[1]].items[pl[2]] = entries[k] => SectionOf(entries[k], pl[1])
        /\ Cardinality(Rendered) = Len(entries)
        /\ \A i \in SectionsOf("Priority") \cup SectionsOf("Category") :
              \A a, b \in 1..Len(report[i].items) :
                  a < b => \E k, m \in 1..Len(entries) :
                              /\ k < m
                              /\ entries[k] = report[i].items[a]
                              /\ entries[m] = report[i].items[b]

\* C23 witness: a report has been rendered from two entries of one priority
\* with an entry of a category found between them, a second entry of that
\* category after them
C23_Witness ==
    /\ report # <<>>
    /\ Len(entries) = 4
    /\ entries[1].data.kind = "Priority"
    /\ entries[2].data.kind = "Category"
    /\ entries[3].data = entries[1].data
    /\ entries[4].data = entries[2].data

(***************************************************************************)
(* The directory tree scan_dir walks                                       *)
(*                                                                         *)
(* A path is the sequence of its components and a component is a string.   *)
(* The tree is r/{.gitignore?, .h/u, a/{.gitignore?, g, s/{.gitignore?, t}},*)
(* f, l?} where l is a symbolic link; `fs` holds what varies: the content  *)
(* of each .gitignore, the target of l, and which directories cannot be    *)
(* listed and which files cannot be read.                                  *)
(***************************************************************************)

gitignore_name == <<".", "g", "i", "t", "i", "g", "n", "o", "r", "e">>

\* PathBuf::push / Path::join of a relative component
join(path, name) == Append(path, name)

Root  == << <<"r">> >>
DirA  == join(Root, <<"a">>)
DirS  == join(DirA, <<"s">>)
DirH  == join(Root, <<".", "h">>)
FileF == join(Root, <<"f">>)
FileG == join(DirA, <<"g">>)
FileT == join(DirS, <<"t">>)
FileU == join(DirH, <<"u">>)
LinkL == join(Root, <<"l">>)
LinkD == join(Root, <<".", "d">>)
Gone  == join(Root, <<"x">>)

Dirs  == {Root, DirA, DirS, DirH}
Files == {FileF, FileG, FileT, FileU}

\* The component names of the tree in byte order, the order glob yields its
\* matches in
SortedNames ==
    << <<".", "d">>, gitignore_name, <<".", "h">>, <<"a">>, <<"f">>, <<"g">>,
       <<"l">>, <<"s">>, <<"t">>, <<"u">> >>

\* The lines (str::lines) of each file of the tree
file_content(p) ==
    CASE p = FileF -> << <<"t", "o", "d", "o", " ", "f">> >>
      [] p = FileG -> << <<"/", "/", " ", "T", "O", "D", "O", "@", "a", " ", "g">> >>
      [] p = FileT -> << <<"b">>, <<"t", "o", "d", "o", "1", " ", "t">> >>
      [] p = FileU -> << <<"t", "o", "d", "o", " ", "u">> >>
      [] OTHER -> fs.ignore[SubSeq(p, 1, Len(p) - 1)].lines

\* What is at a path none of whose components is a symbolic link
kind(p) ==
    IF p \in Dirs THEN "dir"
    ELSE IF p \in Files THEN "file"
    ELSE IF p = LinkL /\ fs.link.exists THEN "symlink"
    ELSE IF p = LinkD /\ fs.dotlink THEN "symlink"
    ELSE IF \E d \in Dirs : p = join(d, gitignore_name) /\ fs.ignore[d].exists THEN "file"
    ELSE "none"

IoErr == [ok |-> FALSE, path |-> <<>>]

\* Where a symbolic link points: r/l at its target, r/.d at nothing
link_target(p) == IF p = LinkL THEN fs.link.target ELSE Gone

\* std::fs::canonicalize: the path with every symbolic link resolved, or an
\* error when a component does not exist
RECURSIVE resolve(_, _)
resolve(cur, rest) ==
    IF rest = <<>> THEN [ok |-> TRUE, path |-> cur]
    ELSE LET nxt == join(cur, Head(rest)) IN
         IF kind(nxt) = "none" THEN IoErr
         ELSE IF kind(nxt) = "symlink"
              THEN IF kind(link_target(nxt)) = "none" THEN IoErr
                   ELSE resolve(link_target(nxt), Tail(rest))
         ELSE IF kind(nxt) = "file" /\ Tail(rest) # <<>> THEN IoErr
         ELSE resolve(nxt, Tail(rest))

canonicalize(path) == resolve(<<>>, path)

\* What a resolved path leads to
canonical_kind(c) == IF c.ok THEN kind(c.path) ELSE "none"

\* Path::exists and Path::is_dir follow symbolic links
exists(path) == canonicalize(path).ok

is_dir(path) == canonical_kind(canonicalize(path)) = "dir"

\* The names in a directory (given by its canonical path)
children(d) == { n \in { SortedNames[i] : i \in 1..Len(SortedNames) } : kind(join(d, n)) # "none" }

\* fs::read_dir: the names an iteration yields, or an I/O error
listing(c) ==
    IF canonical_kind(c) = "dir" /\ c.path \notin fs.unlistable
    THEN [ok |-> TRUE, names |-> children(c.path)]
    ELSE [ok |-> FALSE, names |-> {}]

read_dir(dir) == listing(canonicalize(dir))

\* std::fs::read_to_string
content(c) ==
    IF canonical_kind(c) = "file" /\ c.path \notin fs.unreadable
    THEN [ok |-> TRUE, lines |-> file_content(c.path)]
    ELSE [ok |-> FALSE, lines |-> <<>>]

read_to_string(path) == content(canonicalize(path))

(***************************************************************************)
(* glob::glob on a pattern whose last component alone holds wildcards      *)
(***************************************************************************)

\* Pattern::new fails on a `[` that no `]` closes
malformed(pat) ==
    \E i \in 1..Len(pat) :
        pat[i] = "[" /\ ~\E j \in (i + 2)..Len(pat) : pat[j] = "]"

\* Pattern::matches with the default options: `?` is any one character, `*`
\* any run of characters, a leading dot is matched like any character
RECURSIVE pattern_matches(_, _)
pattern_matches(name, pat) ==
    IF pat = <<>> THEN name = <<>>
    ELSE IF Head(pat) = "*"
         THEN \/ pattern_matches(name, Tail(pat))
              \/ name # <<>> /\ pattern_matches(Tail(name), pat)
    ELSE /\ name # <<>>
         /\ Head(pat) = "?" \/ Head(pat) = Head(name)
         /\ pattern_matches(Tail(name), Tail(pat))

has_wildcard(pat) == contains(pat, <<"?">>) \/ contains(pat, <<"*">>)

\* The paths base/name, in byte order, of the names of the directory that
\* match the pattern
RECURSIVE matching_paths(_, _, _, _)
matching_paths(base, names, pat, i) ==
    IF i > Len(SortedNames) THEN <<>>
    ELSE (IF SortedNames[i] \in names /\ pattern_matches(SortedNames[i], pat)
          THEN <<join(base, SortedNames[i])>> ELSE <<>>)
         \o matching_paths(base, names, pat, i + 1)

\* glob on base/pat, where c is what base resolves to: Err for a malformed
\* pattern; else the matching paths, with `failed` when the directory had to
\* be listed and could not be (the iterator then yields an Err item)
glob_in(base, pat, c) ==
    IF malformed(pat) THEN [ok |-> FALSE, failed |-> FALSE, paths |-> <<>>]
    ELSE IF canonical_kind(c) # "dir" THEN [ok |-> TRUE, failed |-> FALSE, paths |-> <<>>]
    ELSE IF pat = <<>> THEN [ok |-> TRUE, failed |-> FALSE, paths |-> <<base>>]
    ELSE IF has_wildcard(pat) /\ c.path \in fs.unlistable
         THEN [ok |-> TRUE, failed |-> TRUE, paths |-> <<>>]
    ELSE [ok |-> TRUE, failed |-> FALSE,
          paths |-> matching_paths(base, children(c.path), pat, 1)]

glob(pattern) ==
    glob_in(SubSeq(pattern, 1, Len(pattern) - 1), pattern[Len(pattern)],
            canonicalize(SubSeq(pattern, 1, Len(pattern) - 1)))

(***************************************************************************)
(* add_excludes_from_gitignore                                             *)
(***************************************************************************)

\* str::trim_matches with a character
trim_matches(s, c) == trim_end_matches(trim_start_matches(s, <<c>>), <<c>>)

\* `if let Ok(realpath) = canonicalize(..) { excludes.push(realpath) }`
pushed(c) == IF c.ok THEN <<c.path>> ELSE <<>>

\* The canonical forms of the paths that canonicalize, in order
RECURSIVE canonical_paths(_)
canonical_paths(paths) ==
    IF paths = <<>> THEN <<>>
    ELSE pushed(canonicalize(Head(paths))) \o canonical_paths(Tail(paths))

\* Which branch of the loop body a line takes, given the line trimmed
line_kind(trimmed) ==
    IF trimmed = <<>> THEN "empty"
    ELSE IF trimmed = <<"*">> THEN "star"
    ELSE IF starts_with(trimmed, <<"!">>) THEN "negation"
    ELSE IF starts_with(trimmed, <<"#">>) THEN "comment"
    ELSE "pattern"

\* The pattern a line stands for: the line itself, not trimmed of spaces
pattern_of(base_dir, ln) ==
    join(base_dir, trim_matches(trim_end_matches(ln, <<"*", "/">>), "/"))

\* The loop over the lines, from line i on, with the excludes pushed so far;
\* import_step is the body of the loop for a line of kind k whose pattern
\* glob answers with `found`
RECURSIVE import_lines(_, _, _, _)
RECURSIVE import_step(_, _, _, _, _, _)
\* The body of the loop where the `*` line pushes the directory and the loop
\* goes on with the next line
import_step_star_continues(base_dir, lines, i, excl, k, found) ==
    CASE k = "star" ->
            import_lines(base_dir, lines, i + 1, excl \o pushed(canonicalize(base_dir)))
      [] k \in {"empty", "negation", "comment"} ->
            import_lines(base_dir, lines, i + 1, excl)
      [] k = "pattern" ->
            IF ~found.ok \/ found.failed
            THEN [excludes |-> excl, panic |-> TRUE]
            ELSE import_lines(base_dir, lines, i + 1, excl \o canonical_paths(found.paths))

import_step(base_dir, lines, i, excl, k, found) ==
    CASE k = "star" ->
            [excludes |-> excl \o pushed(canonicalize(base_dir)), panic |-> FALSE]
      [] k \in {"empty", "negation", "comment"} ->
            import_lines(base_dir, lines, i + 1, excl)
      [] k = "pattern" ->
            IF ~found.ok \/ found.failed
            THEN [excludes |-> excl, panic |-> TRUE]
            ELSE import_lines(base_dir, lines, i + 1, excl \o canonical_paths(found.paths))

import_lines(base_dir, lines, i, excl) ==
    IF i > Len(lines) THEN [excludes |-> excl, panic |-> FALSE]
    ELSE import_step(base_dir, lines, i, excl, line_kind(trim(lines[i])),
                     glob(pattern_of(base_dir, lines[i])))

\* The import of a .gitignore that is there or not and reads as str
import_file(base_dir, there, str, excl) ==
    IF ~there THEN [excludes |-> excl, panic |-> FALSE]
    ELSE IF ~str.ok THEN [excludes |-> excl, panic |-> TRUE]
    ELSE import_lines(base_dir, str.lines, 1, excl)

add_excludes_from_gitignore(base_dir, excl) ==
    import_file(base_dir, exists(join(base_dir, gitignore_name)),
                read_to_string(join(base_dir, gitignore_name)), excl)

(***************************************************************************)
(* scan_file and scan_dir                                                  *)
(***************************************************************************)

\* scan_string over all the lines of a file: the entries of the lines in
\* order, up to and including a line that panics
RECURSIVE scan_lines(_, _, _)
scan_lines(lines, num, file) ==
    IF num >= Len(lines) THEN [out |-> <<>>, panic |-> FALSE]
    ELSE LET r == scan_line(lines[num + 1], num, file) IN
         IF r.panic THEN [out |-> r.out, panic |-> TRUE]
         ELSE LET rest == scan_lines(lines, num + 1, file) IN
              [out |-> r.out \o rest.out, panic |-> rest.panic]

scan_string(str, file) == scan_lines(str, 0, file)

\* scan_file: a file that cannot be read yields nothing
scan_content(path, str) ==
    IF str.ok THEN scan_string(str.lines, path) ELSE [out |-> <<>>, panic |-> FALSE]

scan_file(path) == scan_content(path, read_to_string(path))

\* `canonicalize(path).unwrap() == *exclude` for some exclude
is_excluded(canonical, excl) == \E i \in 1..Len(excl) : excl[i] = canonical

\* scan_dir from the import on, up to the start of its loop: the re-check of
\* the directory against the excludes (made when it has a .gitignore) and
\* read_dir. "return" is the early `return Ok(())`, "err" the `?` on read_dir,
\* "list" a listing whose names the loop will go through.
after_import(has_gitignore, imported, canonical, list) ==
    IF imported.panic
    THEN [status |-> "panic", excludes |-> imported.excludes, names |-> {}]
    ELSE IF has_gitignore /\ imported.excludes # <<>> /\ ~canonical.ok
         THEN [status |-> "panic", excludes |-> imported.excludes, names |-> {}]
    ELSE IF has_gitignore /\ is_excluded(canonical.path, imported.excludes)
         THEN [status |-> "return", excludes |-> imported.excludes, names |-> {}]
    ELSE IF ~list.ok
         THEN [status |-> "err", excludes |-> imported.excludes, names |-> {}]
    ELSE [status |-> "list", excludes |-> imported.excludes, names |-> list.names]

\* scan_dir with the re-check after the import left out
scan_dir_enter_no_recheck(dir, excl) ==
    after_import(FALSE, add_excludes_from_gitignore(dir, excl),
                 canonicalize(dir), read_dir(dir))

\* scan_dir up to the start of its loop (add_excludes_from_gitignore returns
\* at once when there is no .gitignore)
scan_dir_enter(dir, excl) ==
    after_import(exists(join(dir, gitignore_name)),
                 add_excludes_from_gitignore(dir, excl),
                 canonicalize(dir), read_dir(dir))

\* The effect of a call whose read_dir error is dropped instead of returned:
\* the caller goes on with its next child
Entered_swallow_err(dir, callers, e) ==
    /\ excludes' = e.excludes
    /\ panicked' = (e.status = "panic")
    /\ visited_folders' = IF e.status \in {"err", "list"}
                          THEN Append(visited_folders, dir)
                          ELSE visited_folders
    /\ stack' = IF e.status = "list"
                THEN Append(callers, [dir |-> dir, todo |-> e.names])
                ELSE callers
    /\ walk' = IF e.status = "panic" THEN "panic"
               ELSE IF e.status = "list" \/ callers # <<>> THEN "running"
               ELSE "ok"

\* The effect of a call whose early return also ends the loop of its caller
Entered_return_ends_caller(dir, callers, e) ==
    /\ excludes' = e.excludes
    /\ panicked' = (e.status = "panic")
    /\ visited_folders' = IF e.status \in {"err", "list"}
                          THEN Append(visited_folders, dir)
                          ELSE visited_folders
    /\ stack' = CASE e.status = "list"   -> Append(callers, [dir |-> dir, todo |-> e.names])
                  [] e.status = "return" -> SubSeq(callers, 1, Len(callers) - 1)
                  [] e.status = "err"    -> <<>>
                  [] e.status = "panic"  -> callers
    /\ walk' = CASE e.status = "list"   -> "running"
                 [] e.status = "return" -> IF Len(callers) <= 1 THEN "ok" ELSE "running"
                 [] e.status = "err"    -> "err"
                 [] e.status = "panic"  -> "panic"

\* The effect of a call scan_dir(dir, ...) that reached e, made while the
\* calls of `callers` are suspended
Entered(dir, callers, e) ==
    /\ excludes' = e.excludes
    /\ panicked' = (e.status = "panic")
    /\ visited_folders' = IF e.status \in {"err", "list"}
                          THEN Append(visited_folders, dir)
                          ELSE visited_folders
    /\ stack' = CASE e.status = "list"   -> Append(callers, [dir |-> dir, todo |-> e.names])
                  [] e.status = "return" -> callers
                  [] e.status = "err"    -> <<>>
                  [] e.status = "panic"  -> callers
    /\ walk' = CASE e.status = "list"   -> "running"
                 [] e.status = "return" -> IF callers = <<>> THEN "ok" ELSE "running"
                 [] e.status = "err"    -> "err"
                 [] e.status = "panic"  -> "panic"

\* A call scan_dir(dir, ...): it runs to the start of its loop, or to its
\* early end
Call(dir, callers) == Entered(dir, callers, scan_dir_enter(dir, excludes))

\* The outermost call, on the root directory
OutermostCall ==
    /\ walk = "idle"
    /\ Call(Root, <<>>)
    /\ UNCHANGED <<fs, entries, visited_files>>
    /\ UNCHANGED <<line_num, line, pp_word, pp_result, report>>
    /\ UNCHANGED list_vars

CallScanDir == OutermostCall /\ UNCHANGED runs

\* The body of the loop with the exclude comparison made before the test of
\* the leading dot
Visit_exclude_first(name, path, callers, canonical, scanned) ==
    IF excludes # <<>> /\ ~canonical.ok
    THEN /\ panicked' = TRUE
         /\ walk' = "panic"
         /\ stack' = callers
         /\ UNCHANGED <<excludes, entries, visited_folders, visited_files>>
    ELSE IF is_excluded(canonical.path, excludes) \/ starts_with(name, <<".">>)
         THEN /\ stack' = callers
              /\ UNCHANGED <<excludes, entries, panicked, visited_folders, visited_files, walk>>
    ELSE IF canonical_kind(canonical) = "dir"
         THEN /\ Call(path, callers)
              /\ UNCHANGED <<entries, visited_files>>
    ELSE /\ visited_files' = Append(visited_files, path)
         /\ entries' = entries \o scanned.out
         /\ panicked' = scanned.panic
         /\ walk' = IF scanned.panic THEN "panic" ELSE "running"
         /\ stack' = callers
         /\ UNCHANGED <<excludes, visited_folders>>

\* The body of the loop for the child `path`, which resolves to `canonical`
\* and, if it is scanned, yields `scanned`
Visit(name, path, callers, canonical, scanned) ==
    IF starts_with(name, <<".">>)
    THEN /\ stack' = callers
         /\ UNCHANGED <<excludes, entries, panicked, visited_folders, visited_files, walk>>
    ELSE IF excludes # <<>> /\ ~canonical.ok
         THEN /\ panicked' = TRUE
              /\ walk' = "panic"
              /\ stack' = callers
              /\ UNCHANGED <<excludes, entries, visited_folders, visited_files>>
    ELSE IF is_excluded(canonical.path, excludes)
         THEN /\ stack' = callers
              /\ UNCHANGED <<excludes, entries, panicked, visited_folders, visited_files, walk>>
    ELSE IF canonical_kind(canonical) = "dir"
         THEN /\ Call(path, callers)
              /\ UNCHANGED <<entries, visited_files>>
    ELSE /\ visited_files' = Append(visited_files, path)
         /\ entries' = entries \o scanned.out
         /\ panicked' = scanned.panic
         /\ walk' = IF scanned.panic THEN "panic" ELSE "running"
         /\ stack' = callers
         /\ UNCHANGED <<excludes, visited_folders>>

\* One iteration of the loop of the innermost call, for the `name` that
\* read_dir yields
LoopBody(name) ==
    /\ walk = "running"
    /\ stack # <<>>
    /\ name \in stack[Len(stack)].todo
    /\ Visit(name, join(stack[Len(stack)].dir, name),
             [stack EXCEPT ![Len(stack)].todo = @ \ {name}],
             canonicalize(join(stack[Len(stack)].dir, name)),
             scan_file(join(stack[Len(stack)].dir, name)))
    /\ UNCHANGED fs
    /\ UNCHANGED <<line_num, line, pp_word, pp_result, report>>
    /\ UNCHANGED list_vars

\* read_dir yields `name`, any of the names it has yet to yield
VisitChild(name) == LoopBody(name) /\ UNCHANGED runs

\* The loop of the innermost call has run out of names: the call returns Ok
LoopEnd ==
    /\ walk = "running"
    /\ stack # <<>>
    /\ stack[Len(stack)].todo = {}
    /\ stack' = SubSeq(stack, 1, Len(stack) - 1)
    /\ walk' = IF Len(stack) = 1 THEN "ok" ELSE "running"
    /\ UNCHANGED <<fs, excludes, entries, panicked, visited_folders, visited_files>>
    /\ UNCHANGED <<line_num, line, pp_word, pp_result, report>>
    /\ UNCHANGED list_vars

Return == LoopEnd /\ UNCHANGED runs

(***************************************************************************)
(* The trees and exclude sets a walk starts from                           *)
(***************************************************************************)

MaxIgnoreLines == 2

NoFile == [exists |-> FALSE, lines |-> <<>>]

IgnoreFile(lines) == [exists |-> TRUE, lines |-> lines]

\* Lines of a .gitignore: the `*` pattern bare and padded, a file name, a
\* directory name with its slash, a comment, a negation, a wildcard, and a
\* pattern glob rejects
IgnoreLines ==
    { <<"*">>, <<" ", "*", " ">>, <<"g">>, <<"s", "/">>, <<"#", "*">>,
      <<"!", "g">>, <<"?">>, <<"[">> }

RECURSIVE LinesUpTo(_)
LinesUpTo(n) ==
    IF n = 0 THEN { <<>> }
    ELSE LinesUpTo(n - 1)
         \cup { Append(ls, l) : ls \in { x \in LinesUpTo(n - 1) : Len(x) = n - 1 },
                                l \in IgnoreLines }

\* A .gitignore of r/a: absent, or up to MaxIgnoreLines lines
IgnoresOfA == { NoFile } \cup { IgnoreFile(ls) : ls \in LinesUpTo(MaxIgnoreLines) }

\* A few .gitignore of r/a: absent, a `*` line alone, and a `*` line between
\* an empty line, a wildcard and a file name
FewIgnoresOfA ==
    { NoFile,
      IgnoreFile(<< <<"*">> >>),
      IgnoreFile(<< <<>>, <<"?">>, <<" ", "*", " ">>, <<"g">> >>) }

\* A .gitignore of r: absent, or one that excludes a child
IgnoresOfRoot == { NoFile, IgnoreFile(<< <<"f">> >>), IgnoreFile(<< <<"a">>, <<"*">> >>) }

\* A .gitignore of r/a/s
IgnoresOfS == { NoFile, IgnoreFile(<< <<"*">> >>) }

NoLink == [exists |-> FALSE, target |-> <<>>]

\* r/l: absent, or a link to a directory, to a file, or to nothing
Links == { NoLink } \cup { [exists |-> TRUE, target |-> t] : t \in {DirA, DirS, FileG, Gone} }

Tree(ir, ia, is, l, ul, ur, dl) ==
    [ignore |-> (Root :> ir) @@ (DirA :> ia) @@ (DirS :> is) @@ (DirH :> NoFile),
     link |-> l, unlistable |-> ul, unreadable |-> ur, dotlink |-> dl]

\* The trees: every .gitignore of r/a in an otherwise plain tree; every
\* combination of .gitignore files and links around a few .gitignore of r/a;
\* and trees with directories that cannot be listed, files that cannot be
\* read and links to nothing
Trees ==
    { Tree(NoFile, ia, NoFile, l, {}, {}, FALSE) :
        ia \in IgnoresOfA,
        l \in { NoLink, [exists |-> TRUE, target |-> DirS] } }
    \cup
    { Tree(ir, ia, is, l, ul, {}, FALSE) :
        ir \in IgnoresOfRoot, ia \in FewIgnoresOfA, is \in IgnoresOfS,
        l \in Links, ul \in { {}, {DirS} } }
    \cup
    { Tree(NoFile, ia, NoFile, l, ul, ur, dl) :
        ia \in { NoFile, IgnoreFile(<< <<"g">> >>) },
        l \in { NoLink, [exists |-> TRUE, target |-> Gone] },
        ul \in { {}, {DirA}, {Root} },
        ur \in { {}, {FileF}, {FileT} },
        dl \in BOOLEAN }

\* The excludes of the command line, already canonical
InitialExcludes == { <<>>, <<FileF>>, <<Root>> }

InitWalk ==
    /\ fs \in Trees
    /\ excludes \in InitialExcludes
    /\ stack = <<>>
    /\ visited_folders = <<>>
    /\ visited_files = <<>>
    /\ walk = "idle"
    /\ RunsIdle
    /\ entries = <<>>
    /\ panicked = FALSE
    /\ ScanIdle
    /\ PriorityIdle
    /\ report = <<>>
    /\ ListIdle

NextWalk ==
    \/ CallScanDir
    \/ \E name \in { SortedNames[i] : i \in 1..Len(SortedNames) } : VisitChild(name)
    \/ Return

SpecWalk == InitWalk /\ [][NextWalk]_vars

(***************************************************************************)
(* Two runs of the program over the same unchanged input                   *)
(***************************************************************************)

\* SortedNames backwards
ReversedNames == [i \in 1..Len(SortedNames) |-> SortedNames[Len(SortedNames) + 1 - i]]

\* SortedNames with its two halves swapped
RotatedNames ==
    [i \in 1..Len(SortedNames) |->
        SortedNames[((i + (Len(SortedNames) \div 2) - 1) % Len(SortedNames)) + 1]]

\* The orders in which read_dir yields the names of a directory
Orders == { SortedNames, ReversedNames, RotatedNames }

\* Where `name` stands in `order`
PositionIn(order, name) == CHOOSE i \in 1..Len(order) : order[i] = name

\* The name read_dir yields next, out of the names it has yet to yield
yields_next(order, names, name) ==
    /\ name \in names
    /\ \A other \in names : PositionIn(order, name) <= PositionIn(order, other)

\* The trees of a run that is repeated: every combination of .gitignore files
\* and links, directories that cannot be listed, files that cannot be read
\* and links to nothing
RunTrees ==
    { t \in Trees : t.ignore[DirA] \in FewIgnoresOfA \cup { IgnoreFile(<< <<"g">> >>) } }

InitTwoRuns ==
    /\ fs \in RunTrees
    /\ excludes \in InitialExcludes
    /\ \E order \in Orders :
          runs = [run |-> 1, order |-> order, excludes |-> excludes, first |-> NoRun]
    /\ stack = <<>>
    /\ visited_folders = <<>>
    /\ visited_files = <<>>
    /\ walk = "idle"
    /\ entries = <<>>
    /\ panicked = FALSE
    /\ ScanIdle
    /\ PriorityIdle
    /\ report = <<>>
    /\ ListIdle

\* main calls scan_dir on the root directory
RunScanDir == OutermostCall /\ UNCHANGED runs

\* read_dir yields the next name, in the order of this input
RunVisitChild(name) ==
    /\ stack # <<>>
    /\ yields_next(runs.order, stack[Len(stack)].todo, name)
    /\ LoopBody(name)
    /\ UNCHANGED runs

RunReturn == LoopEnd /\ UNCHANGED runs

\* What a run that has ended leaves behind
Outcome ==
    [walk |-> walk, entries |-> entries,
     visited_folders |-> visited_folders, visited_files |-> visited_files]

\* The second run starts from the excludes the first run ended with
SecondRun_keeps_excludes(e) ==
    /\ runs.run = 1
    /\ walk \in {"ok", "err", "panic"}
    /\ runs' = [runs EXCEPT !.run = 2, !.first = Outcome]
    /\ excludes' = excludes
    /\ entries' = <<>>
    /\ panicked' = FALSE
    /\ stack' = <<>>
    /\ visited_folders' = <<>>
    /\ visited_files' = <<>>
    /\ walk' = "idle"
    /\ UNCHANGED fs
    /\ UNCHANGED <<line_num, line, pp_word, pp_result, report>>
    /\ UNCHANGED list_vars

\* The first run has ended and the program is started again: main builds the
\* excludes `e` from the same arguments, and a fresh entries and Stats
SecondRun(e) ==
    /\ runs.run = 1
    /\ walk \in {"ok", "err", "panic"}
    /\ runs' = [runs EXCEPT !.run = 2, !.first = Outcome]
    /\ excludes' = e
    /\ entries' = <<>>
    /\ panicked' = FALSE
    /\ stack' = <<>>
    /\ visited_folders' = <<>>
    /\ visited_files' = <<>>
    /\ walk' = "idle"
    /\ UNCHANGED fs
    /\ UNCHANGED <<line_num, line, pp_word, pp_result, report>>
    /\ UNCHANGED list_vars

StartAgain == SecondRun(runs.excludes)

NextTwoRuns ==
    \/ RunScanDir
    \/ \E name \in { SortedNames[i] : i \in 1..Len(SortedNames) } : RunVisitChild(name)
    \/ RunReturn
    \/ StartAgain

SpecTwoRuns == InitTwoRuns /\ [][NextTwoRuns]_vars

(***************************************************************************)
(* Two runs over the same tree, the second with read_dir in another order  *)
(***************************************************************************)

\* The first run has ended and the program is started again from the same
\* arguments, over the same tree; read_dir now yields the names in `order`
RunReordered(order) ==
    /\ runs.run = 1
    /\ walk \in {"ok", "err", "panic"}
    /\ order # runs.order
    /\ runs' = [runs EXCEPT !.run = 2, !.first = Outcome, !.order = order]
    /\ excludes' = runs.excludes
    /\ entries' = <<>>
    /\ panicked' = FALSE
    /\ stack' = <<>>
    /\ visited_folders' = <<>>
    /\ visited_files' = <<>>
    /\ walk' = "idle"
    /\ UNCHANGED fs
    /\ UNCHANGED <<line_num, line, pp_word, pp_result, report>>
    /\ UNCHANGED list_vars

NextTwoOrders ==
    \/ RunScanDir
    \/ \E name \in { SortedNames[i] : i \in 1..Len(SortedNames) } : RunVisitChild(name)
    \/ RunReturn
    \/ \E order \in Orders : RunReordered(order)

SpecTwoOrders == InitTwoRuns /\ [][NextTwoOrders]_vars

(***************************************************************************)
(* Properties of the walk                                                  *)
(***************************************************************************)

\* The path p is d or lies under d
IsUnder(p, d) == Len(d) <= Len(p) /\ SubSeq(p, 1, Len(d)) = d

\* The .gitignore of the directory d has a line that trims to `*`
HasStarLine(d) ==
    /\ read_to_string(join(d, gitignore_name)).ok
    /\ \E i \in 1..Len(read_to_string(join(d, gitignore_name)).lines) :
          trim(read_to_string(join(d, gitignore_name)).lines[i]) = <<"*">>

\* The paths the walk has processed so far: the directories it has listed or
\* tried to list, the directories whose loop is running, the files it has
\* handed to scan_file, and the files its entries are located in
Processed ==
    { visited_folders[i] : i \in 1..Len(visited_folders) }
    \cup { stack[i].dir : i \in 1..Len(stack) }
    \cup { visited_files[i] : i \in 1..Len(visited_files) }
    \cup { entries[i].location.file : i \in 1..Len(entries) }

\* C10: a directory whose .gitignore has a line that trims to `*` is never
\* listed, and no file in it or below it is scanned or has an entry, whatever
\* the order its parent's and its own children come in and whatever lines
\* precede the `*` line: no processed path is that directory or lies under it.
C10_StarAbandonsDirectory ==
    \A p \in Processed :
        \A k \in 1..Len(p) : ~HasStarLine(SubSeq(p, 1, k))

\* C10 witness: a walk has ended normally after meeting r/a, whose .gitignore
\* has its `*` line after a pattern line that excluded r/a/g; both excludes
\* were imported and the sibling r/f was scanned
C10_Witness ==
    /\ walk = "ok"
    /\ fs.ignore[DirA].exists
    /\ Len(fs.ignore[DirA].lines) >= 2
    /\ line_kind(trim(fs.ignore[DirA].lines[1])) = "pattern"
    /\ \E i \in 2..Len(fs.ignore[DirA].lines) : trim(fs.ignore[DirA].lines[i]) = <<"*">>
    /\ is_excluded(FileG, excludes)
    /\ is_excluded(DirA, excludes)
    /\ \E i \in 1..Len(visited_files) : visited_files[i] = FileF
    /\ \E i \in 1..Len(entries) : entries[i].location.file = FileF

\* The path pushed last to a Vec of paths
LastOf(paths) == paths[Len(paths)]

\* C11 (as stated): whenever the walker lists a directory (stats.add_folder,
\* then read_dir) or hands a file to scan_file, the canonical path of that
\* directory or file is not in the exclude set of that moment; the root
\* directory included, with or without a .gitignore.
C11_ExcludedNeverProcessed ==
    [][ /\ Len(visited_folders') > Len(visited_folders)
            => ~is_excluded(canonicalize(LastOf(visited_folders')).path, excludes')
        /\ Len(visited_files') > Len(visited_files)
            => ~is_excluded(canonicalize(LastOf(visited_files')).path, excludes') ]_vars

\* The names of the tree
Names == { SortedNames[i] : i \in 1..Len(SortedNames) }

\* This step is the iteration of the innermost loop on the child `name`
Consumes(name) ==
    /\ walk = "running"
    /\ stack # <<>>
    /\ name \in stack[Len(stack)].todo
    /\ Len(stack') >= Len(stack)
    /\ name \notin stack'[Len(stack)].todo

\* A component of the path below the directory the walk started from begins
\* with a dot
UnderDotName(p) == \E k \in 2..Len(p) : starts_with(p[k], <<".">>)

\* C12: a child whose name starts with `.` is neither descended into nor
\* scanned: no processed path has a dot-named component below the starting
\* directory, so no entry is located under one; and the iteration on such a
\* child changes nothing (no comparison with the excludes is made for it, so
\* it cannot fail either).
C12_DotNamesSkipped ==
    /\ [](\A p \in Processed : ~UnderDotName(p))
    /\ [][ \A name \in Names :
              Consumes(name) /\ starts_with(name, <<".">>)
                  => UNCHANGED <<excludes, entries, panicked, visited_folders,
                                 visited_files, walk>> ]_vars

\* C12 witness: with a non-empty exclude set, the walk has ended normally
\* after meeting the directory r/.h, which holds a file with a marker, and
\* r/.d, a link to nothing
C12_Witness ==
    /\ walk = "ok"
    /\ fs.dotlink
    /\ excludes # <<>>
    /\ read_to_string(FileU).ok
    /\ \E i \in 1..Len(visited_folders) : visited_folders[i] = Root
    /\ \E i \in 1..Len(visited_files) : visited_files[i] = FileF

\* The child `name` of the directory of the innermost call
ChildPath(name) == join(stack[Len(stack)].dir, name)

\* The path is not a directory and read_to_string fails on it: a file without
\* read permission or with binary content, or a link to nothing
CannotBeRead(path) == ~is_dir(path) /\ ~read_to_string(path).ok

\* C13 (as stated): the iteration on a child that is a file which cannot be
\* read or resolved never aborts the run, with an empty or a non-empty exclude
\* set: the walk goes on, nothing has panicked, and the entries are as before.
C13_UnreadableFileNeverAborts ==
    [][ \A name \in Names :
          Consumes(name) /\ ~starts_with(name, <<".">>) /\ CannotBeRead(ChildPath(name))
              => walk' = "running" /\ panicked' = FALSE /\ entries' = entries ]_vars

\* C14: when read_dir fails on a directory, at any depth, every suspended
\* call returns the error at once: the outermost call ends with Err, the
\* entries collected so far are kept, and from then on no directory is listed,
\* no file is scanned and no entry is added.
C14_ListingErrorAbortsWalk ==
    [][ /\ ( /\ Len(visited_folders') > Len(visited_folders)
             /\ ~read_dir(LastOf(visited_folders')).ok )
            => /\ walk' = "err"
               /\ stack' = <<>>
               /\ panicked' = FALSE
               /\ entries' = entries
               /\ visited_files' = visited_files
        /\ walk = "err"
            => UNCHANGED <<entries, visited_folders, visited_files, stack, walk>> ]_vars

\* C14 witness: the walk has ended with Err on r/a/s, two levels down, with
\* an entry collected before it and with r/f, which is not excluded, left
\* unscanned
C14_Witness ==
    /\ walk = "err"
    /\ visited_folders # <<>>
    /\ LastOf(visited_folders) = DirS
    /\ Len(visited_folders) = 3
    /\ entries # <<>>
    /\ ~is_excluded(FileF, excludes)
    /\ \A i \in 1..Len(visited_files) : visited_files[i] # FileF

\* The line is a pattern line whose pattern glob rejects
IsMalformedLine(base_dir, ln) ==
    /\ line_kind(trim(ln)) = "pattern"
    /\ ~glob(pattern_of(base_dir, ln)).ok

\* The lines of the .gitignore of the directory d
IgnoreLinesOf(d) == read_to_string(join(d, gitignore_name)).lines

\* The lines without the malformed ones
WellFormedLinesOf(d) ==
    LET keep(ln) == ~IsMalformedLine(d, ln) IN SelectSeq(IgnoreLinesOf(d), keep)

\* C15 (as stated): the import of a .gitignore with a malformed pattern line
\* returns normally, and the exclude set it leaves is the one the same file
\* without that line leaves: the line adds nothing and the lines after it are
\* still processed.
C15_MalformedLineSkipped ==
    \A d \in Dirs :
        (\E i \in 1..Len(IgnoreLinesOf(d)) : IsMalformedLine(d, IgnoreLinesOf(d)[i]))
            => /\ ~add_excludes_from_gitignore(d, excludes).panic
               /\ add_excludes_from_gitignore(d, excludes).excludes
                    = import_lines(d, WellFormedLinesOf(d), 1, excludes).excludes

(***************************************************************************)
(* scan_todo_file and scan_readme_file                                     *)
(***************************************************************************)

\* The condition on a word of a list item: a priority token
is_priority_token(word) ==
    /\ starts_with(trim_end_matches(to_lowercase(word), <<":">>), todo)
    /\ any_priority_char(word)

\* The loop `for word in line.split_whitespace()`: the index of the first
\* priority token from index i on, 0 when the loop ends without one
RECURSIVE first_priority_token(_, _)
first_priority_token(words, i) ==
    IF i > Len(words) THEN 0
    ELSE IF is_priority_token(words[i]) THEN i
    ELSE first_priority_token(words, i + 1)

\* The body of the loop on the priority token: a Priority entry when the
\* token parses, then `continue 'line` whether it parsed or not
priority_item(loc, priority, text) ==
    IF priority.kind = "Panic" THEN [out |-> <<>>, panic |-> TRUE]
    ELSE IF priority.kind = "None" THEN [out |-> <<>>, panic |-> FALSE]
    ELSE IF ~text.some THEN [out |-> <<>>, panic |-> TRUE]
    ELSE [out |-> <<Entry(text.val, loc, Priority(priority.val))>>, panic |-> FALSE]

\* The text of an item without a priority token
fallback_text(ln) ==
    trim_start_matches(
        trim_start_matches(trim_start(ln), <<"-", " ", "[", " ", "]", " ">>),
        <<"-", " ">>)

\* The fallback entry of an item
fallback_item(ln, loc, data) ==
    [out |-> <<Entry(fallback_text(ln), loc, data)>>, panic |-> FALSE]

\* A list item: k is the index of its first priority token among its words,
\* data what its fallback entry is
list_item(ln, loc, words, k, data) ==
    IF k = 0 THEN fallback_item(ln, loc, data)
    ELSE priority_item(loc, parse_priority(trim_end_matches(words[k], <<":">>)),
                       clean_line(ln, words[k]))

\* The items of a line that is no heading: nothing unless the line, trimmed
\* at its start, starts with `-`
item_line(ln, loc, data) ==
    IF ~starts_with(trim_start(ln), <<"-">>) THEN [out |-> <<>>, panic |-> FALSE]
    ELSE list_item(ln, loc, split_whitespace(ln),
                   first_priority_token(split_whitespace(ln), 1), data)

\* scan_todo_file on a heading: `line.split_once("# ").unwrap().1`
todo_heading(cat, parts) ==
    IF ~parts.some THEN [out |-> <<>>, panic |-> TRUE, category |-> cat]
    ELSE [out |-> <<>>, panic |-> FALSE,
          category |-> [some |-> TRUE, val |-> parts.after]]

\* scan_todo_file on a line that is no heading, where a line that yields no
\* entry ends the category
todo_item_ends_category(cat, item) ==
    [out |-> item.out, panic |-> item.panic,
     category |-> IF item.out = <<>> THEN [some |-> FALSE, val |-> <<>>] ELSE cat]

\* scan_todo_file on a line that is no heading
todo_item(cat, item) == [out |-> item.out, panic |-> item.panic, category |-> cat]

\* One pass of the loop of scan_todo_file
todo_line(ln, num, file, cat) ==
    IF starts_with(ln, <<"#">>) THEN todo_heading(cat, split_once(ln, <<"#", " ">>))
    ELSE todo_item(cat, item_line(ln, Location(file, num + 1),
                                  IF cat.some THEN Category(cat.val) ELSE Generic))

\* section.to_lowercase().trim_end_matches(':').trim()
cleaned_section(section) == trim(trim_end_matches(to_lowercase(section), <<":">>))

\* scan_readme_file on a heading, where a heading other than the TODO heading
\* leaves the flag as it is
readme_heading_only_opens(inside, parts) ==
    IF ~parts.some THEN [out |-> <<>>, panic |-> TRUE, inside |-> inside]
    ELSE [out |-> <<>>, panic |-> FALSE,
          inside |-> inside \/ cleaned_section(parts.after) \in {todo, todo \o <<"s">>}]

\* scan_readme_file on a heading
readme_heading(inside, parts) ==
    IF ~parts.some THEN [out |-> <<>>, panic |-> TRUE, inside |-> inside]
    ELSE [out |-> <<>>, panic |-> FALSE,
          inside |-> cleaned_section(parts.after) \in {todo, todo \o <<"s">>}]

\* scan_readme_file on a line that is no heading
readme_item(inside, item) ==
    IF ~inside THEN [out |-> <<>>, panic |-> FALSE, inside |-> inside]
    ELSE [out |-> item.out, panic |-> item.panic, inside |-> inside]

\* One pass of the loop of scan_readme_file with the test of the section
\* left out
readme_line_any_section(ln, num, file, inside) ==
    IF starts_with(ln, <<"#">>) THEN readme_heading(inside, split_once(ln, <<"#", " ">>))
    ELSE readme_item(TRUE, item_line(ln, Location(file, num + 1), Generic))

\* One pass of the loop of scan_readme_file
readme_line(ln, num, file, inside) ==
    IF starts_with(ln, <<"#">>) THEN readme_heading(inside, split_once(ln, <<"#", " ">>))
    ELSE readme_item(inside, item_line(ln, Location(file, num + 1), Generic))

(***************************************************************************)
(* The todo-file and the README as state machines over their lines         *)
(***************************************************************************)

MaxListLines == 3

\* Lines of a todo-file or README: headings with and without `# `, items
\* plain, indented, with a task box, with priority tokens that parse, that do
\* not, and that panic, and lines that are no items
ListLines ==
    { <<"#", " ", "A">>,
      <<"#", "#", " ", "b", " ", "c">>,
      <<"#", " ", "T", "O", "D", "O", ":">>,
      <<"#", "#", " ", "t", "o", "d", "o", "s">>,
      <<"#", " ", "T", "o", "d", "o", " ", ":">>,
      <<"#">>,
      <<"#", "x">>,
      <<"-", " ", "f", "o", "o">>,
      <<" ", " ", "-", " ", "[", " ", "]", " ", "f", "o", "o", " ">>,
      <<"-", " ", "-", " ", "f", "o", "o">>,
      <<"-">>,
      <<"-", " ", "t", "o", "d", "o", "1", " ", "b", "a", "r">>,
      <<"-", " ", "[", " ", "]", " ", "T", "O", "D", "O", "0", "0", ":", " ", "x", " ", "-", "-", ">">>,
      <<"-", " ", "t", "o", "d", "o", "1", "1", " ", "x">>,
      <<"-", " ", "t", "o", "d", "o", "1", "1", " ", "t", "o", "d", "o", "1", " ", "y">>,
      <<"-", " ", "t", "o", "d", "o", "2", " ", "t", "o", "d", "o", "3", " ", "y">>,
      <<"-", " ", "t", "o", "d", "o", "-", "t", "o", "d", "o", "1", " ", "x">>,
      <<"-", " ", "t", "o", "d", "o", "@", "x", " ", "z">>,
      <<"f", "o", "o">>,
      <<"*", " ", "t", "o", "d", "o", "1", " ", "n", "o">> }

todo_path == "todo.md"

readme_path == "README.md"

InitList ==
    /\ line_num = 0
    /\ line = <<>>
    /\ entries = <<>>
    /\ panicked = FALSE
    /\ ListIdle
    /\ PriorityIdle
    /\ report = <<>>
    /\ WalkIdle

\* scan_todo_file consumes the next line of the file
TodoLine(ln) ==
    /\ ~panicked
    /\ line_num < MaxListLines
    /\ entries' = entries \o todo_line(ln, line_num, todo_path, current_category).out
    /\ panicked' = todo_line(ln, line_num, todo_path, current_category).panic
    /\ current_category' = todo_line(ln, line_num, todo_path, current_category).category
    /\ line' = ln
    /\ line_num' = line_num + 1
    /\ consumed' = Append(consumed, ln)
    /\ UNCHANGED <<in_todo_section, pp_word, pp_result, report>>
    /\ UNCHANGED walk_vars

NextTodo == \E ln \in ListLines : TodoLine(ln)

SpecTodo == InitList /\ [][NextTodo]_vars

\* scan_readme_file consumes the next line of the file
ReadmeLine(ln) ==
    /\ ~panicked
    /\ line_num < MaxListLines
    /\ entries' = entries \o readme_line(ln, line_num, readme_path, in_todo_section).out
    /\ panicked' = readme_line(ln, line_num, readme_path, in_todo_section).panic
    /\ in_todo_section' = readme_line(ln, line_num, readme_path, in_todo_section).inside
    /\ line' = ln
    /\ line_num' = line_num + 1
    /\ consumed' = Append(consumed, ln)
    /\ UNCHANGED <<current_category, pp_word, pp_result, report>>
    /\ UNCHANGED walk_vars

NextReadme == \E ln \in ListLines : ReadmeLine(ln)

SpecReadme == InitList /\ [][NextReadme]_vars

(***************************************************************************)
(* Properties of the todo-file and README scanners                         *)
(***************************************************************************)

\* x without the spaces at its start
LeftTrimmed(x) ==
    LET ink == { i \in 1..Len(x) : x[i] # " " } IN
    IF ink = {} THEN <<>>
    ELSE SubSeq(x, CHOOSE i \in ink : \A j \in ink : i <= j, Len(x))

IsHeadingLine(l) == l # <<>> /\ l[1] = "#"

IsListItem(l) == ~IsHeadingLine(l) /\ LeftTrimmed(l) # <<>> /\ LeftTrimmed(l)[1] = "-"

\* A token that starts with `todo` in any case and contains a digit
IsPriorityToken(w) == TodoPrefixed(w) /\ HasChar(w, PRIORITY_CHARS)

HasPriorityToken(l) == \E sp \in WordSpans(l) : IsPriorityToken(WordAt(l, sp))

\* t with one leading `- [ ] `, or else one leading `- `, removed
WithoutItemPrefix(t) ==
    IF Len(t) >= 6 /\ SubSeq(t, 1, 6) = <<"-", " ", "[", " ", "]", " ">>
    THEN SubSeq(t, 7, Len(t))
    ELSE IF Len(t) >= 2 /\ SubSeq(t, 1, 2) = <<"-", " ">>
    THEN SubSeq(t, 3, Len(t))
    ELSE t

\* The text of a heading line: what follows its hashes and the spaces after
\* them
HeadingText(l) ==
    LET body == { i \in 1..Len(l) : l[i] # "#" } IN
    IF body = {} THEN <<>>
    ELSE LeftTrimmed(SubSeq(l, CHOOSE i \in body : \A j \in body : i <= j, Len(l)))

\* The entries located at line n
EntriesAt(n) == SelectSeq(entries, LAMBDA e : e.location.line = n)

\* The index of the last heading line above line n, 0 when there is none
HeadingAbove(n) ==
    LET hs == { m \in 1..(n - 1) : IsHeadingLine(consumed[m]) } IN
    IF hs = {} THEN 0 ELSE CHOOSE m \in hs : \A k \in hs : k <= m

\* C16 (as stated): in the todo-file a list-item line without a priority
\* token yields exactly one entry; its text is the line left-trimmed with one
\* leading `- [ ] ` or `- ` removed; it is Category(h) for the text h of the
\* last heading line above it, and Generic when there is none.
C16_PlainItemYieldsOneEntry ==
    \A n \in 1..Len(consumed) :
        (IsListItem(consumed[n]) /\ ~HasPriorityToken(consumed[n]))
            => EntriesAt(n) =
                 << Entry(WithoutItemPrefix(LeftTrimmed(consumed[n])),
                          Location(todo_path, n),
                          IF HeadingAbove(n) = 0 THEN Generic
                          ELSE Category(HeadingText(consumed[HeadingAbove(n)]))) >>

\* The heading opens the TODO section: its text, lowercased, without the
\* colons at its end and without surrounding spaces, is `todo` or `todos`
IsTodoHeading(l) ==
    Trimmed(WithoutClosing(to_lowercase(HeadingText(l)), <<":">>))
        \in { todo, todo \o <<"s">> }

\* C17: every entry of a README is Generic or Priority and is located at a
\* list-item line whose last heading above is a TODO heading; lines before
\* that heading and lines of other sections have no entry.
C17_ReadmeOnlyTodoSection ==
    \A i \in 1..Len(entries) :
        LET n == entries[i].location.line IN
        /\ entries[i].data.kind \in {"Generic", "Priority"}
        /\ entries[i].location.file = readme_path
        /\ n \in 1..Len(consumed)
        /\ IsListItem(consumed[n])
        /\ HeadingAbove(n) # 0
        /\ IsTodoHeading(consumed[HeadingAbove(n)])

\* C17 witness: a README with an item before any heading, then the TODO
\* heading, then an item: the first item has no entry, the second has one
C17_Witness ==
    /\ Len(consumed) = 3
    /\ IsListItem(consumed[1])
    /\ IsTodoHeading(consumed[2])
    /\ IsListItem(consumed[3])
    /\ EntriesAt(1) = <<>>
    /\ Len(EntriesAt(3)) = 1

\* The first priority token of the line l
FirstPriorityToken(l) ==
    WordAt(l, CHOOSE sp \in WordSpans(l) : IsFirst(l, sp, IsPriorityToken))

\* What parse_priority makes of a token, its trailing colons dropped
Parsed(w) == parse_priority(WithoutClosing(w, <<":">>))

\* The Priority entry of line n, from its first priority token
PriorityEntryOf(n) ==
    Entry(Cleaned(AfterFirstOccurrence(consumed[n], FirstPriorityToken(consumed[n]))),
          Location(todo_path, n),
          Priority(Parsed(FirstPriorityToken(consumed[n])).val))

\* The fallback entry of line n: Category under a heading, Generic otherwise
FallbackEntryOf(n) ==
    Entry(WithoutItemPrefix(LeftTrimmed(consumed[n])),
          Location(todo_path, n),
          IF HeadingAbove(n) = 0 THEN Generic
          ELSE Category(HeadingText(consumed[HeadingAbove(n)])))

\* C19 (as stated): a list-item line with a priority token yields the
\* Priority entry of its first such token when that token parses, and its
\* fallback entry when it does not; every list-item line yields exactly one
\* entry.
C19_ItemAlwaysYieldsOneEntry ==
    \A n \in 1..Len(consumed) :
        IsListItem(consumed[n]) =>
            /\ Len(EntriesAt(n)) = 1
            /\ HasPriorityToken(consumed[n]) =>
                  IF Parsed(FirstPriorityToken(consumed[n])).kind = "Some"
                  THEN EntriesAt(n) = <<PriorityEntryOf(n)>>
                  ELSE EntriesAt(n) = <<FallbackEntryOf(n)>>

\* C20 (as stated): every line that starts with `#` is taken as a heading
\* without failure, whatever follows the `#`: the scan does not panic, no
\* entry is added, and when the line holds `# ` the current category of the
\* todo-file becomes the text after its first occurrence.
C20_HeadingNeverFails ==
    [][ ( /\ Len(consumed') > Len(consumed)
          /\ IsHeadingLine(LastOf(consumed')) )
            => /\ panicked' = FALSE
               /\ entries' = entries
               /\ (\E i \in 1..Len(LastOf(consumed')) :
                       OccursAt(LastOf(consumed'), <<"#", " ">>, i))
                    => current_category' =
                         [some |-> TRUE,
                          val  |-> AfterFirstOccurrence(LastOf(consumed'), <<"#", " ">>)] ]_vars

(***************************************************************************)
(* Properties of two runs                                                  *)
(***************************************************************************)

IsPrefix(a, b) == Len(a) <= Len(b) /\ a = SubSeq(b, 1, Len(a))

Ended == walk \in {"ok", "err", "panic"}

C21_OnlyTodoHeadingChangesFlag ==
    [][ ( /\ Len(consumed') > Len(consumed)
          /\ ~(IsHeadingLine(LastOf(consumed')) /\ IsTodoHeading(LastOf(consumed'))) )
            => in_todo_section' = in_todo_section ]_vars

\* C21 (amended): every heading line the scan gets past sets the in-section
\* flag to whether it is a TODO heading, and adds no entry; every other line
\* leaves the flag as it is, and adds no entry outside the section. So a
\* sub-heading inside the TODO section closes the section.
C21_EveryHeadingSetsFlag ==
    [][ Len(consumed') > Len(consumed)
          => IF IsHeadingLine(LastOf(consumed')) /\ ~panicked'
             THEN /\ in_todo_section' = IsTodoHeading(LastOf(consumed'))
                  /\ entries' = entries
             ELSE /\ in_todo_section' = in_todo_section
                  /\ ~in_todo_section => entries' = entries ]_vars

\* C21 witness: a TODO heading, a sub-heading of another text, then a list
\* item, which is outside the section and has no entry
C21_Witness ==
    /\ Len(consumed) = 3
    /\ IsTodoHeading(consumed[1])
    /\ IsHeadingLine(consumed[2]) /\ ~IsTodoHeading(consumed[2])
    /\ IsListItem(consumed[3])
    /\ ~panicked
    /\ ~in_todo_section
    /\ entries = <<>>

\* C26: in the todo-file the current category, once set, stays set; so every
\* entry located below a heading line is a Priority entry or a Category entry
\* that carries the text after the first `# ` of the last heading above it,
\* and none is Generic.
C26_NoGenericAfterHeading ==
    /\ [][current_category.some => current_category'.some]_vars
    /\ [](\A i \in 1..Len(entries) :
            LET n == entries[i].location.line IN
            HeadingAbove(n) # 0 =>
                /\ entries[i].data.kind \in {"Priority", "Category"}
                /\ entries[i].data.kind = "Category" =>
                      entries[i].data.category
                        = AfterFirstOccurrence(consumed[HeadingAbove(n)], <<"#", " ">>))

\* C26 witness: a heading, a line that is neither heading nor item, then a
\* plain item, whose entry carries the category of the heading
C26_Witness ==
    /\ Len(consumed) = 3
    /\ IsHeadingLine(consumed[1])
    /\ ~IsHeadingLine(consumed[2]) /\ ~IsListItem(consumed[2])
    /\ IsListItem(consumed[3])
    /\ current_category.some
    /\ Len(entries) = 1
    /\ entries[1].data.kind = "Category"
    /\ entries[1].location.line = 3

(***************************************************************************)
(* Properties of the import of a .gitignore                                *)
(***************************************************************************)

\* This step is a call scan_dir(d, ...): the outermost one, or the one made
\* for a child that is a directory, has no leading dot and is not excluded
CallsScanDir(d) ==
    \/ /\ walk = "idle"
       /\ walk' # "idle"
       /\ d = Root
    \/ /\ walk = "running"
       /\ stack # <<>>
       /\ \E name \in stack[Len(stack)].todo :
             /\ d = ChildPath(name)
             /\ ~starts_with(name, <<".">>)
             /\ is_dir(d)
             /\ ~is_excluded(canonicalize(d).path, excludes)
             /\ \/ /\ Len(visited_folders') > Len(visited_folders)
                   /\ LastOf(visited_folders') = d
                \/ /\ visited_folders' = visited_folders
                   /\ Len(stack') = Len(stack)
                   /\ name \notin stack'[Len(stack)].todo

\* The directories a step can call scan_dir on: the root, or a child the
\* innermost loop has yet to meet
Callable ==
    IF walk = "idle" THEN { Root }
    ELSE IF stack = <<>> THEN {}
    ELSE { ChildPath(n) : n \in stack[Len(stack)].todo }

\* The line leaves the excludes alone: it is empty or blank, a comment or a
\* negation
IsSkippedLine(ln) ==
    \/ Trimmed(ln) = <<>>
    \/ Trimmed(ln)[1] = "#"
    \/ Trimmed(ln)[1] = "!"

IsStarLine(ln) == Trimmed(ln) = <<"*">>

\* The index of the first `*` line, one past the last line when there is none
StarIndex(lines) ==
    LET stars == { i \in 1..Len(lines) : IsStarLine(lines[i]) } IN
    IF stars = {} THEN Len(lines) + 1
    ELSE CHOOSE i \in stars : \A j \in stars : i <= j

\* What the lines 1..k add, none of them a `*` line: the canonical paths
\* their patterns match, line after line
RECURSIVE AddedByPatterns(_, _, _)
AddedByPatterns(d, lines, k) ==
    IF k = 0 THEN <<>>
    ELSE AddedByPatterns(d, lines, k - 1)
         \o (IF IsSkippedLine(lines[k]) THEN <<>>
             ELSE canonical_paths(glob(pattern_of(d, lines[k])).paths))

\* The excludes after the import of the lines of the .gitignore of d
AfterImport(d, lines, excl) ==
    excl \o AddedByPatterns(d, lines, StarIndex(lines) - 1)
         \o (IF StarIndex(lines) <= Len(lines) THEN <<canonicalize(d).path>> ELSE <<>>)

\* C22: the import made by a call scan_dir(d, ...) only appends to the
\* excludes; when it returns, the excludes are the ones before it, then what
\* the pattern lines above the first `*` line match, then, if there is a `*`
\* line, the canonical d: empty, comment and negation lines add nothing, and
\* no line after the `*` line adds anything. No other step changes the
\* excludes.
C22_ImportOnlyAppends ==
    [][ /\ IsPrefix(excludes, excludes')
        /\ (\A d \in Callable : ~CallsScanDir(d)) => excludes' = excludes
        /\ \A d \in Callable :
              (CallsScanDir(d) /\ ~panicked')
                  => excludes' = IF exists(join(d, gitignore_name))
                                 THEN AfterImport(d, IgnoreLinesOf(d), excludes)
                                 ELSE excludes ]_vars

\* C22 witness: the walk has ended normally after the import of the
\* .gitignore of r/a, whose first line is a `*` line and whose second line
\* names r/a/g: r/a is excluded and r/a/g is not
C22_Witness ==
    /\ walk = "ok"
    /\ fs.ignore[DirA].exists
    /\ Len(fs.ignore[DirA].lines) = 2
    /\ IsStarLine(fs.ignore[DirA].lines[1])
    /\ fs.ignore[DirA].lines[2] = <<"g">>
    /\ excludes # <<>>
    /\ LastOf(excludes) = DirA
    /\ ~is_excluded(FileG, excludes)

(***************************************************************************)
(* Totality of the marker parser                                           *)
(***************************************************************************)

\* C24 (as stated): scan_string returns normally for every input: whatever
\* todo-prefixed tokens the lines scanned so far hold, no unwrap of
\* parse_priority, of clean_line or of the category split has failed.
C24_ScanStringNeverPanics == line_num > 0 => ~panicked

(***************************************************************************)
(* Properties of two runs in different orders                              *)
(***************************************************************************)

\* The tree holds no symbolic link
NoSymlinks == ~fs.link.exists /\ ~fs.dotlink

\* How many times x occurs in the sequence q
Occurrences(q, x) == Cardinality({ i \in 1..Len(q) : q[i] = x })

\* The sequences hold the same elements, each as many times
SameBag(p, q) ==
    /\ Len(p) = Len(q)
    /\ \A i \in 1..Len(p) : Occurrences(p, p[i]) = Occurrences(q, p[i])

\* The second run has ended, over a tree without symbolic links
SecondRunEnded == runs.run = 2 /\ Ended /\ NoSymlinks

\* C25 (as stated): over a tree without symbolic links, two runs that differ
\* in the order of read_dir alone hand the same files to scan_file and yield
\* the same entries, each as many times.
C25_SameFilesInAnyOrder ==
    SecondRunEnded =>
        /\ SameBag(visited_files, runs.first.visited_files)
        /\ SameBag(entries, runs.first.entries)

\* C25 (amended): over a tree without symbolic links, a run ends normally in
\* one order of read_dir exactly if it does in another, and two runs that end
\* normally have handed the same files to scan_file, listed the same
\* directories and yielded the same entries, each as many times.
C25_SameFilesWhenWalkEndsOk ==
    SecondRunEnded =>
        /\ (walk = "ok") <=> (runs.first.walk = "ok")
        /\ walk = "ok" =>
              /\ SameBag(visited_files, runs.first.visited_files)
              /\ SameBag(visited_folders, runs.first.visited_folders)
              /\ SameBag(entries, runs.first.entries)

\* C25 witness: the second run has ended normally over a tree without
\* symbolic links in which a .gitignore added excludes, with the entries of
\* several files in an order other than that of the first run
C25_Witness ==
    /\ SecondRunEnded
    /\ walk = "ok"
    /\ excludes # runs.excludes
    /\ Len(visited_files) >= 2
    /\ entries # runs.first.entries
    /\ SameBag(entries, runs.first.entries)

====
